---- MODULE Spec2Model ----
(***************************************************************************)
(* A model of the evaluation harness of the evaluator repository:          *)
(*   - the branch controllers (GitManager, UTPRGitManager and its Docker   *)
(*     implementation) and UnitTestPassRateEvaluator.evaluate, over an     *)
(*     abstract git repository (SpecBranch);                               *)
(*   - PatchApplier.apply_patch_from_file over an abstract patch made of   *)
(*     files and hunks (SpecPatch);                                        *)
(*   - CollectResultsPlugin.pytest_runtest_logreport, on the host and in   *)
(*     the runner script of DockerPytestRunner (SpecCollect);              *)
(*   - UnitTestPassRateEvalResult.create_from_results (SpecScore);         *)
(*   - filter_file_using_mig_diff and the range splicer of                 *)
(*     mig_diff_filter.py (SpecFilter);                                    *)
(*   - PatchSimilarityEvaluator.evaluate and                               *)
(*     ASTComparator.compare_directory_asts (SpecCompare).                 *)
(* The components do not share state; each specification moves the         *)
(* variables of one component and leaves the others at their idle values.  *)
(***************************************************************************)
EXTENDS Integers, Sequences, FiniteSets, TLC

VARIABLES
    \* ---- the git repository (shared working tree)
    branches,        \* set of branch names that exist
    head,            \* checked-out branch, Detached when HEAD is detached
    tip,             \* branch name -> content of its tip commit
    wt,              \* working tree / index: "clean", "patched", "conflict"
    containerUp,     \* DockerUTPRGitManager: container running and repo present
    \* ---- control state of the operation in progress
    pc,              \* position in the code
    caller,          \* operation in progress: "none","ctx","create","eval","delete"
    mgr,             \* manager class executing: "git", "docker", "base"
    exc,             \* an exception is propagating
    nops,            \* operations started so far
    startHead,       \* head when the operation was called (history)
    startBranches,   \* branches when the operation was called (history)
    \* ---- branch_context locals
    ctxBranch,       \* branch_name
    original_branch, \* original_branch ("" is falsy: no branch / None)
    entryHead,       \* head when the context was entered (history)
    ctxEntered,      \* the context body was reached (yield)
    bodyHead,        \* head while the guarded block ran (history)
    \* ---- create_branch_from_patch locals
    old_branch_name,
    new_branch_name,
    patch_content,   \* the patch: a sequence of files, each a sequence of hunk kinds
    baseTip,         \* content of old_branch_name's tip at the call (history)
    cbReturn,        \* "none", "True", "False", "raised"
    \* ---- UnitTestPassRateEvaluator.evaluate locals
    testsExist,      \* eval_tests_path exists on the host
    patchFileExists, \* gen_patch_file exists
    stage,           \* "none","setup","create","pre","gt","gen","score"
    report,          \* "none", "success", "failed"
    reportStep,      \* the step the failed report's error names
    cleanupFailed,   \* the cleanups that failed: "temp", "tests", "patch", "branch" (history)
    artefacts,       \* what the operation has put into the container and is still
                     \* there: "tests", "script", "json", "patch"
    \* ---- PatchApplier.apply_patch_from_file
    variant,         \* "none", "evaluator" (src/src/evaluator), "legacy" (src/utils)
    patch,           \* the patch file's content
    ppc,             \* position in apply_patch_from_file
    attempts,        \* the git apply invocations made, in order
    applied,         \* hunks applied to the target tree: set of <<file, hunk>>
    rc,              \* returncode of the last git apply
    applied_count,   \* applied_count computed from the last output
    result,          \* "pending", "True", "False"
    cwd,             \* the process working directory: "original", "working_dir"
    \* ---- CollectResultsPlugin
    results,         \* nodeid -> result dict (present = FALSE: no key)
    seen,            \* nodeid -> the <<when, status>> of the reports processed (history)
    nreports,        \* reports processed
    scriptResults,   \* the results of the plugin in DockerPytestRunner's script
    \* ---- UnitTestPassRateEvalResult.create_from_results
    pre_mig_result,  \* UnitTestResult.results: a list of result dicts
    gt_patch_result,
    gen_patch_result,
    spc,             \* position in create_from_results
    baseline_passing_tests,
    baseline_count,
    gt_patch_score,  \* a score is a fraction [num, den]
    gt_maintained_count,
    gen_patch_score,
    gen_maintained_count,
    eval_json,       \* the JSON text of to_dict(), <<>> before it is written
    loaded,          \* the object load_from_json returns, <<>> before
    \* ---- filter_file_using_mig_diff
    old_file,        \* lines of the pre-migration file
    new_file,        \* lines of the post-migration file
    code_changes,    \* the "line" value of each entry, a sequence of characters
    fpc,             \* position in the filter
    all_changes,     \* the parsed (and then sorted) ranges
    old_lineno,
    cur_change_idx,
    new_file_mig_only,
    output,          \* lines written to output_path
    \* ---- PatchSimilarityEvaluator.evaluate and ASTComparator
    dir1,            \* first tree compared (patched_dir): path -> file
    dir2,            \* second tree compared (the repository or filtered_repo)
    simpc,           \* position in evaluate / compare_directory_asts
    mode,            \* "none", "raw", "filtered": the comparison in use
    failure,         \* what went wrong during the evaluation (history)
    common_files,
    similarities,    \* relative path -> ratio, a fraction [num, den]
    similarity_score,
    score_file,      \* the score in patch_similarity.json, a sequence of 0 or 1
    simReport,       \* status of the returned report: "none","success","failed"
    \* ---- the repository PatchSimilarityEvaluator works on
    checked_out,     \* the branch checked out in config.repo_path
    branch_trees,    \* branch -> tree of its files
    gen_patch,       \* the generated patch: the file it rewrites and the new text
    mig_available,   \* MigDiffFilter.is_available()
    listed           \* path -> how mig-diff.yaml lists it: "none", "copy", "all"

gitVars   == <<branches, head, tip, wt, containerUp>>
ctlVars   == <<pc, caller, mgr, exc, nops>>
startVars == <<startHead, startBranches>>
ctxVars   == <<ctxBranch, original_branch, entryHead, ctxEntered, bodyHead>>
cbVars    == <<old_branch_name, new_branch_name, patch_content, baseTip, cbReturn>>
evVars    == <<testsExist, patchFileExists, stage, report, reportStep, cleanupFailed,
               artefacts>>
patchVars == <<variant, patch, ppc, attempts, applied, rc, applied_count, result, cwd>>
collectVars == <<results, seen, nreports, scriptResults>>
scoreVars == <<pre_mig_result, gt_patch_result, gen_patch_result, spc,
               baseline_passing_tests, baseline_count, gt_patch_score,
               gt_maintained_count, gen_patch_score, gen_maintained_count,
               eval_json, loaded>>
filterVars == <<old_file, new_file, code_changes, fpc, all_changes, old_lineno,
                cur_change_idx, new_file_mig_only, output>>
compareVars == <<dir1, dir2, simpc, mode, failure, common_files, similarities,
                 similarity_score, score_file, simReport>>
repoVars == <<checked_out, branch_trees, gen_patch, mig_available, listed>>
branchVars == <<gitVars, ctlVars, startVars, ctxVars, cbVars, evVars>>
notBranchVars == <<patchVars, collectVars, scoreVars, filterVars, compareVars, repoVars>>
notPatchVars == <<branchVars, collectVars, scoreVars, filterVars, compareVars, repoVars>>
notCollectVars == <<branchVars, patchVars, scoreVars, filterVars, compareVars, repoVars>>
notScoreVars == <<branchVars, patchVars, collectVars, filterVars, compareVars, repoVars>>
notFilterVars == <<branchVars, patchVars, collectVars, scoreVars, compareVars, repoVars>>
notCompareVars == <<branchVars, patchVars, collectVars, scoreVars, filterVars, repoVars>>
vars      == <<branchVars, patchVars, collectVars, scoreVars, filterVars, compareVars, repoVars>>

-----------------------------------------------------------------------------
(* Bounds *)

\* operations run one after another on the same repository
MaxOps == 2
\* files in a patch, hunks in a file
MaxFiles == 2
MaxHunks == 2
\* phase reports handed to the plugin in one run
MaxReports == 3
\* result dicts in the three runs handed to create_from_results, together
MaxResults == 4
\* diff filter: lines of the old file plus ranges declared (two per change)
MaxSize == 6
MaxLiveSize == 5
\* diff filter: lines of the new file
MaxNewLines == 3
\* characters in the Python files of the two compared trees, all together
MaxChars == 4

-----------------------------------------------------------------------------
(* Patches and git apply.  A hunk is "ok" (its context matches the target  *)
(* exactly), "merge" (its context does not match, a three-way merge        *)
(* resolves it) or "bad" (it applies under no strategy).                   *)

HunkKinds == {"ok", "merge", "bad"}

SeqsUpTo(S, n) == UNION {[1..k -> S] : k \in 1..n}

Files == SeqsUpTo(HunkKinds, MaxHunks)

Patches == SeqsUpTo(Files, MaxFiles)

HunksOf(p) == {<<f, h>> : f \in DOMAIN p, h \in 1..MaxHunks} \cap
              {x \in (DOMAIN p) \X (1..MaxHunks) : x[2] \in DOMAIN p[x[1]]}

KindOf(p, x) == p[x[1]][x[2]]

HunksOfKind(p, K) == {x \in HunksOf(p) : KindOf(p, x) \in K}

FileClean(p, f, K) == \A h \in DOMAIN p[f] : p[f][h] \in K

CleanFiles(p, K) == {f \in DOMAIN p : FileClean(p, f, K)}

\* git apply [--ignore-whitespace] FILE: all hunks or nothing
GitApplyStrict(p) ==
    IF HunksOfKind(p, {"ok"}) = HunksOf(p)
    THEN [rc |-> 0, hunks |-> HunksOf(p), count |-> 0]
    ELSE [rc |-> 1, hunks |-> {}, count |-> 0]

\* git apply --reject [--verbose] FILE: every hunk that matches is applied, the
\* others are written to .rej files; the exit status is 1 when any hunk was
\* rejected; "Applied patch F cleanly." is printed per file without rejects
\* ("Applying patch F with N rejects..." for the others).
GitApplyReject(p) ==
    [rc    |-> IF HunksOfKind(p, {"ok"}) = HunksOf(p) THEN 0 ELSE 1,
     hunks |-> HunksOfKind(p, {"ok"}),
     count |-> Cardinality(CleanFiles(p, {"ok"}))]

\* git apply --3way --reject FILE: git refuses the combination
\* ("options '--reject' and '--3way' cannot be used together", status 128).
GitApply3wayReject(p) == [rc |-> 128, hunks |-> {}, count |-> 0]

\* git apply --3way FILE: status 0 when every hunk applies directly or by merge
GitApply3way(p) ==
    [rc    |-> IF HunksOfKind(p, {"ok", "merge"}) = HunksOf(p) THEN 0 ELSE 1,
     hunks |-> HunksOfKind(p, {"ok", "merge"}),
     count |-> Cardinality(CleanFiles(p, {"ok", "merge"}))]

-----------------------------------------------------------------------------
(* The repository *)

Names == {"main", "gt", "gen", "dev"}

Detached == ""

NoTip == [base |-> "", patched |-> FALSE]

InitTip(b) == [base |-> b, patched |-> FALSE]

Patched(c) == [base |-> c.base, patched |-> TRUE]

HeadTip == IF head = Detached THEN [base |-> "detached", patched |-> FALSE] ELSE tip[head]

\* git checkout NAME succeeds when the branch exists and the index is merged
CheckoutOk(name) == name \in branches /\ wt # "conflict"

\* git checkout -b NAME succeeds when no branch has the name
CheckoutNewOk(name) == name \notin branches

\* git branch -D NAME succeeds when the branch exists and is not checked out
DeleteOk(name) == name \in branches /\ name # head

\* DockerUTPRGitManager._run_git raises RuntimeError on a non-zero status;
\* GitManager._run_git and LocalUTPRGitManager._run_git return the result
RunGitRaises(m) == m = "docker"

\* the command reaches git (Docker: container and repo checks pass) and succeeds
GitOk(m, ok) == ok /\ (m = "docker" => containerUp)

-----------------------------------------------------------------------------
(* Idle values of each component's locals *)

CtxIdle ==
    /\ ctxBranch = ""
    /\ original_branch = ""
    /\ entryHead = ""
    /\ ctxEntered = FALSE
    /\ bodyHead = ""

CbIdle ==
    /\ old_branch_name = ""
    /\ new_branch_name = ""
    /\ patch_content = <<>>
    /\ baseTip = NoTip
    /\ cbReturn = "none"

EvIdle ==
    /\ testsExist = FALSE
    /\ patchFileExists = FALSE
    /\ stage = "none"
    /\ report = "none"
    /\ reportStep = "none"
    /\ cleanupFailed = {}
    /\ artefacts = {}

PatchIdle ==
    /\ variant = "none"
    /\ patch = <<>>
    /\ ppc = "idle"
    /\ attempts = <<>>
    /\ applied = {}
    /\ rc = 0
    /\ applied_count = 0
    /\ result = "pending"
    /\ cwd = "original"

NodeIds == {"t1", "t2"}

NoResult == [present |-> FALSE, outcome |-> "", when |-> "", duration |-> 0,
             longrepr |-> FALSE]

CollectIdle ==
    /\ results = [n \in NodeIds |-> NoResult]
    /\ seen = [n \in NodeIds |-> {}]
    /\ nreports = 0
    /\ scriptResults = [n \in NodeIds |-> NoResult]

\* a score: maintained_count / len(baseline_passing_tests), 0.0 as 0/1
NoScore == [num |-> 0, den |-> 1]

ScoreIdle ==
    /\ pre_mig_result = <<>>
    /\ gt_patch_result = <<>>
    /\ gen_patch_result = <<>>
    /\ spc = "idle"
    /\ baseline_passing_tests = {}
    /\ baseline_count = 0
    /\ gt_patch_score = NoScore
    /\ gt_maintained_count = 0
    /\ gen_patch_score = NoScore
    /\ gen_maintained_count = 0
    /\ eval_json = <<>>
    /\ loaded = <<>>

FilterIdle ==
    /\ old_file = <<>>
    /\ new_file = <<>>
    /\ code_changes = <<>>
    /\ fpc = "idle"
    /\ all_changes = <<>>
    /\ old_lineno = 0
    /\ cur_change_idx = 0
    /\ new_file_mig_only = <<>>
    /\ output = <<>>

\* the paths of a tree: two that the glob **/*.py matches and one it does not
PyPaths == {"a.py", "b.py"}
Paths == PyPaths \cup {"r.md"}

\* a path with no file, and an empty file
NoFile == [exists |-> FALSE, text |-> <<>>]
EmptyFile == [exists |-> TRUE, text |-> <<>>]

RepoIdle ==
    /\ checked_out = ""
    /\ branch_trees = <<>>
    /\ gen_patch = <<>>
    /\ mig_available = FALSE
    /\ listed = <<>>

CompareIdle ==
    /\ dir1 = [p \in Paths |-> NoFile]
    /\ dir2 = [p \in Paths |-> NoFile]
    /\ simpc = "idle"
    /\ mode = "none"
    /\ failure = "none"
    /\ common_files = {}
    /\ similarities = <<>>
    /\ similarity_score = NoScore
    /\ score_file = <<>>
    /\ simReport = "none"

BranchIdle ==
    /\ branches = {"main"}
    /\ head = "main"
    /\ tip = [b \in Names |-> IF b = "main" THEN InitTip(b) ELSE NoTip]
    /\ wt = "clean"
    /\ containerUp = TRUE
    /\ pc = "idle"
    /\ caller = "none"
    /\ mgr = "none"
    /\ exc = FALSE
    /\ nops = 0
    /\ startHead = ""
    /\ startBranches = {}
    /\ CtxIdle
    /\ CbIdle
    /\ EvIdle

-----------------------------------------------------------------------------
(* The branch controllers and UnitTestPassRateEvaluator.evaluate *)

\* the evaluator's configured branch names
PreMig == "main"
GtPatch == "gt"
GenPatch == "gen"

InitBranch ==
    /\ branches \in (SUBSET Names) \ {{}}
    /\ head \in branches \cup {Detached}
    /\ tip = [b \in Names |-> IF b \in branches THEN InitTip(b) ELSE NoTip]
    /\ wt = "clean"
    /\ containerUp \in BOOLEAN
    /\ pc = "idle"
    /\ caller = "none"
    /\ mgr = "none"
    /\ exc = FALSE
    /\ nops = 0
    /\ startHead = ""
    /\ startBranches = {}
    /\ CtxIdle
    /\ CbIdle
    /\ EvIdle
    /\ PatchIdle
    /\ CollectIdle
    /\ ScoreIdle
    /\ FilterIdle
    /\ CompareIdle
    /\ RepoIdle

\* ---- branch_context (GitManager and UTPRGitManager: the same code)

\* with manager.branch_context(X): entered from outside an evaluation
StartContext(m, X) ==
    /\ pc = "idle"
    /\ wt = "clean"
    /\ nops < MaxOps
    /\ nops' = nops + 1
    /\ startHead' = head
    /\ startBranches' = branches
    /\ caller' = "ctx"
    /\ mgr' = m
    /\ exc' = FALSE
    /\ ctxBranch' = X
    /\ entryHead' = head
    /\ pc' = "ctx_show"
    /\ UNCHANGED <<notBranchVars, gitVars, original_branch, ctxEntered, bodyHead, cbVars, evVars>>

\* result = self._run_git(["branch", "--show-current"]); original_branch = ...
CtxShowCurrent ==
    /\ pc = "ctx_show"
    /\ IF GitOk(mgr, TRUE)
       THEN /\ original_branch' = head
            /\ pc' = "ctx_checkout"
            /\ exc' = exc
       ELSE /\ original_branch' = original_branch
            /\ exc' = TRUE
            /\ pc' = "ctx_out"
    /\ UNCHANGED <<notBranchVars, startVars, gitVars, caller, mgr, nops, ctxBranch, entryHead, ctxEntered,
                   bodyHead, cbVars, evVars>>

\* where the guarded block starts for the caller
BodyPc == IF caller = "eval" THEN "ev_copy" ELSE "ctx_body"

\* try: self._run_git(["checkout", branch_name]); yield self
CtxCheckout ==
    /\ pc = "ctx_checkout"
    /\ IF GitOk(mgr, CheckoutOk(ctxBranch))
       THEN /\ head' = ctxBranch
            /\ pc' = BodyPc
            /\ exc' = exc
       ELSE /\ head' = head
            /\ exc' = RunGitRaises(mgr)
            /\ pc' = IF RunGitRaises(mgr) THEN "ctx_finally" ELSE BodyPc
    /\ UNCHANGED <<notBranchVars, startVars, branches, tip, wt, containerUp, caller, mgr, nops, ctxVars,
                   cbVars, evVars>>

\* the guarded block of a caller outside the evaluation (copying the tree,
\* comparing directories): it reads the working tree and returns or raises
CtxBody ==
    /\ pc = "ctx_body"
    /\ \E raises \in BOOLEAN : exc' = raises
    /\ ctxEntered' = TRUE
    /\ bodyHead' = head
    /\ pc' = "ctx_finally"
    /\ UNCHANGED <<notBranchVars, startVars, gitVars, caller, mgr, nops, ctxBranch, original_branch,
                   entryHead, cbVars, evVars>>

\* the restore skipped for every branch but the requested one (== for !=)
RestoreNeededSwapped(orig, name) == orig # "" /\ orig = name

\* if original_branch and original_branch != branch_name
RestoreNeeded(orig, name) == orig # "" /\ orig # name

\* finally: ... self._run_git(["checkout", original_branch])
CtxRestore ==
    /\ pc = "ctx_finally"
    /\ IF RestoreNeeded(original_branch, ctxBranch)
       THEN IF GitOk(mgr, CheckoutOk(original_branch))
            THEN head' = original_branch /\ exc' = exc
            ELSE head' = head /\ exc' = (exc \/ RunGitRaises(mgr))
       ELSE head' = head /\ exc' = exc
    /\ pc' = "ctx_out"
    /\ UNCHANGED <<notBranchVars, startVars, branches, tip, wt, containerUp, caller, mgr, nops, ctxVars,
                   cbVars, evVars>>

\* the with statement is left (by return or by the propagating exception)
CtxReturn ==
    /\ pc = "ctx_out"
    /\ caller = "ctx"
    /\ pc' = "done"
    /\ UNCHANGED <<notBranchVars, startVars, gitVars, caller, mgr, exc, nops, ctxVars, cbVars, evVars>>

\* ---- create_branch_from_patch

\* the patches handed to create_branch_from_patch: one that applies, one that
\* needs the merge, one with a hunk that applies and one that does not, one
\* that does not apply
BranchPatches == {<<<<"ok">>>>, <<<<"merge">>>>, <<<<"ok", "bad">>>>, <<<<"bad">>>>}

\* manager.create_branch_from_patch(old, new, patch) called from outside an
\* evaluation, on the Docker manager or on the base class implementation
StartCreate(m, old, new, p) ==
    /\ pc = "idle"
    /\ wt = "clean"
    /\ nops < MaxOps
    /\ nops' = nops + 1
    /\ startHead' = head
    /\ startBranches' = branches
    /\ caller' = "create"
    /\ mgr' = m
    /\ exc' = FALSE
    /\ old_branch_name' = old
    /\ new_branch_name' = new
    /\ patch_content' = p
    /\ baseTip' = tip[old]
    /\ cbReturn' = "none"
    /\ pc' = "cb_checkout_old"
    /\ UNCHANGED <<notBranchVars, gitVars, ctxVars, evVars>>

\* self._run_git(["checkout", old_branch_name])
CbCheckoutOld ==
    /\ pc = "cb_checkout_old"
    /\ IF GitOk(mgr, CheckoutOk(old_branch_name))
       THEN /\ head' = old_branch_name
            /\ pc' = "cb_checkout_new"
            /\ UNCHANGED <<exc, cbReturn>>
       ELSE /\ head' = head
            /\ exc' = RunGitRaises(mgr)
            /\ cbReturn' = IF RunGitRaises(mgr) THEN "raised" ELSE cbReturn
            /\ pc' = IF RunGitRaises(mgr) THEN "cb_out" ELSE "cb_checkout_new"
    /\ UNCHANGED <<notBranchVars, startVars, branches, tip, wt, containerUp, caller, mgr, nops, ctxVars,
                   old_branch_name, new_branch_name, patch_content, baseTip, evVars>>

\* self._run_git(["checkout", "-b", new_branch_name])
CbCheckoutNew ==
    /\ pc = "cb_checkout_new"
    /\ IF GitOk(mgr, CheckoutNewOk(new_branch_name))
       THEN /\ branches' = branches \cup {new_branch_name}
            /\ tip' = [tip EXCEPT ![new_branch_name] = HeadTip]
            /\ head' = new_branch_name
            /\ pc' = "cb_apply"
            /\ UNCHANGED <<exc, cbReturn>>
       ELSE /\ UNCHANGED <<branches, tip, head>>
            /\ exc' = RunGitRaises(mgr)
            /\ cbReturn' = IF RunGitRaises(mgr) THEN "raised" ELSE cbReturn
            /\ pc' = IF RunGitRaises(mgr) THEN "cb_out" ELSE "cb_apply"
    /\ UNCHANGED <<notBranchVars, startVars, wt, containerUp, caller, mgr, nops, ctxVars,
                   old_branch_name, new_branch_name, patch_content, baseTip, evVars>>

\* the working tree a failed git apply --3way leaves: conflict markers and an
\* unmerged index, or nothing when git fell back to direct application
TreesAfterFailed3way == {"conflict", "clean"}

\* DockerUTPRGitManager: git apply --3way FILE; a non-zero status raises
CbApplyDocker ==
    /\ pc = "cb_apply"
    /\ mgr = "docker"
    /\ \E wrote \in BOOLEAN :
         IF ~wrote
         THEN /\ exc' = TRUE
              /\ cbReturn' = "raised"
              /\ pc' = "cb_finally"
              /\ UNCHANGED <<wt, artefacts>>
         ELSE /\ artefacts' = artefacts \cup {"patch"}
              /\ IF GitApply3way(patch_content).rc # 0
                 THEN /\ exc' = TRUE
                      /\ cbReturn' = "raised"
                      /\ \E w \in TreesAfterFailed3way : wt' = w
                      /\ pc' = "cb_finally"
                 ELSE /\ wt' = "patched"
                      /\ pc' = "cb_commit"
                      /\ UNCHANGED <<exc, cbReturn>>
    /\ UNCHANGED <<notBranchVars, startVars, branches, head, tip, containerUp, caller, mgr, nops, ctxVars,
                   old_branch_name, new_branch_name, patch_content, baseTip,
                   testsExist, patchFileExists, stage, report, reportStep, cleanupFailed>>

\* the artefacts left by a cleanup that removes nothing
RemovedNothing(names, removed) == artefacts

\* the artefacts left by rm on the named ones: gone when the command succeeds
Removed(names, removed) == IF removed THEN artefacts \ names ELSE artefacts

\* the cleanups on record once the named one has run with the given success
AfterCleanup(name, ok) == IF ok THEN cleanupFailed ELSE cleanupFailed \cup {name}

\* DockerUTPRGitManager.create_branch_from_patch, finally: rm -f of the
\* temporary patch file, check=False
CbRemovePatch ==
    /\ pc = "cb_finally"
    /\ \E removed \in BOOLEAN :
         /\ artefacts' = Removed({"patch"}, removed)
         /\ cleanupFailed' = AfterCleanup("patch", removed)
    /\ pc' = "cb_out"
    /\ UNCHANGED <<notBranchVars, startVars, gitVars, caller, mgr, exc, nops, ctxVars, cbVars,
                   testsExist, patchFileExists, stage, report, reportStep>>

\* UTPRGitManager (and LocalUTPRGitManager): git apply --3way, then
\* git apply --reject when that fails; returns result.returncode == 0
CbApplyBase ==
    /\ pc = "cb_apply"
    /\ mgr = "base"
    /\ IF GitApply3way(patch_content).rc = 0
       THEN /\ wt' = "patched"
            /\ cbReturn' = "True"
       ELSE /\ \E w \in TreesAfterFailed3way :
                 wt' = IF w = "conflict" THEN "conflict"
                       ELSE IF GitApplyReject(patch_content).hunks # {} THEN "patched"
                       ELSE "clean"
            /\ cbReturn' = IF GitApplyReject(patch_content).rc = 0 THEN "True" ELSE "False"
    /\ pc' = "cb_out"
    /\ UNCHANGED <<notBranchVars, startVars, branches, head, tip, containerUp, caller, mgr, exc, nops, ctxVars,
                   old_branch_name, new_branch_name, patch_content, baseTip, evVars>>

\* self._run_git(["add", "-A"]); self._run_git(["commit", "-m", ...])
CbCommit ==
    /\ pc = "cb_commit"
    /\ \E ok \in BOOLEAN :
         IF GitOk(mgr, ok)
         THEN /\ tip' = IF head = Detached THEN tip ELSE [tip EXCEPT ![head] = Patched(@)]
              /\ wt' = "clean"
              /\ pc' = "cb_checkout_back"
              /\ UNCHANGED <<exc, cbReturn>>
         ELSE /\ UNCHANGED <<tip, wt>>
              /\ exc' = TRUE
              /\ cbReturn' = "raised"
              /\ pc' = "cb_finally"
    /\ UNCHANGED <<notBranchVars, startVars, branches, head, containerUp, caller, mgr, nops, ctxVars,
                   old_branch_name, new_branch_name, patch_content, baseTip, evVars>>

\* self._run_git(["checkout", old_branch_name]); return result.returncode == 0
CbCheckoutBack ==
    /\ pc = "cb_checkout_back"
    /\ IF GitOk(mgr, CheckoutOk(old_branch_name))
       THEN /\ head' = old_branch_name
            /\ cbReturn' = "True"
            /\ exc' = exc
       ELSE /\ head' = head
            /\ cbReturn' = "raised"
            /\ exc' = TRUE
    /\ pc' = "cb_finally"
    /\ UNCHANGED <<notBranchVars, startVars, branches, tip, wt, containerUp, caller, mgr, nops, ctxVars,
                   old_branch_name, new_branch_name, patch_content, baseTip, evVars>>

\* create_branch_from_patch is left, called from outside an evaluation
CbReturn ==
    /\ pc = "cb_out"
    /\ caller = "create"
    /\ pc' = "done"
    /\ UNCHANGED <<notBranchVars, startVars, gitVars, caller, mgr, exc, nops, ctxVars, cbVars, evVars>>

\* ---- UnitTestPassRateEvaluator (constructed with the Docker runner and manager)

\* the evaluation's branches in the order evaluate() runs them
StageBranch(st) ==
    IF st = "pre" THEN PreMig ELSE IF st = "gt" THEN GtPatch ELSE GenPatch

\* an order in which the generated branch is evaluated second
NextStageGenSecond(st) == IF st = "pre" THEN "gen" ELSE IF st = "gen" THEN "gt" ELSE "score"

\* the branch evaluated after st
NextStage(st) == IF st = "pre" THEN "gt" ELSE IF st = "gt" THEN "gen" ELSE "score"

\* evaluator.evaluate()
StartEvaluate(te, pe, p) ==
    /\ pc = "idle"
    /\ wt = "clean"
    /\ nops < MaxOps
    /\ nops' = nops + 1
    /\ startHead' = head
    /\ startBranches' = branches
    /\ caller' = "eval"
    /\ mgr' = "docker"
    /\ exc' = FALSE
    /\ testsExist' = te
    /\ patchFileExists' = pe
    /\ patch_content' = p
    /\ stage' = "setup"
    /\ report' = "none"
    /\ reportStep' = "none"
    /\ cleanupFailed' = {}
    /\ artefacts' = {}
    /\ pc' = "ev_check"
    /\ UNCHANGED <<notBranchVars, gitVars, ctxVars, old_branch_name, new_branch_name, baseTip, cbReturn>>

\* if not eval_tests_path.exists(): return {"error": ..., "status": "failed"}
EvCheckTestsPath ==
    /\ pc = "ev_check"
    /\ IF testsExist
       THEN pc' = "ev_setup" /\ UNCHANGED <<report, reportStep>>
       ELSE pc' = "ev_finally" /\ report' = "failed" /\ reportStep' = "tests_path"
    /\ UNCHANGED <<notBranchVars, startVars, gitVars, caller, mgr, exc, nops, ctxVars, cbVars,
                   testsExist, patchFileExists, stage, cleanupFailed, artefacts>>

\* self._setup_git_info(): two git config commands through _run_git
EvSetupGitInfo ==
    /\ pc = "ev_setup"
    /\ IF GitOk(mgr, TRUE)
       THEN pc' = "ev_install" /\ exc' = exc
       ELSE pc' = "ev_except" /\ exc' = TRUE
    /\ UNCHANGED <<notBranchVars, startVars, gitVars, caller, mgr, nops, ctxVars, cbVars, evVars>>

\* self._install_editable(): pip install -e in the container, RuntimeError on failure
EvInstallEditable ==
    /\ pc = "ev_install"
    /\ \E ok \in BOOLEAN :
         IF ok
         THEN pc' = "ev_create" /\ exc' = exc
         ELSE pc' = "ev_except" /\ exc' = TRUE
    /\ UNCHANGED <<notBranchVars, startVars, gitVars, caller, mgr, nops, ctxVars, cbVars, evVars>>

\* self._create_gen_patch_branch(): FileNotFoundError when the patch file is
\* missing, else create_branch_from_patch(pre_mig, gen_patch, patch_content)
EvCreateGenPatchBranch ==
    /\ pc = "ev_create"
    /\ stage' = "create"
    /\ IF patchFileExists
       THEN /\ old_branch_name' = PreMig
            /\ new_branch_name' = GenPatch
            /\ baseTip' = tip[PreMig]
            /\ pc' = "cb_checkout_old"
            /\ exc' = exc
       ELSE /\ UNCHANGED <<old_branch_name, new_branch_name, baseTip>>
            /\ pc' = "ev_except"
            /\ exc' = TRUE
    /\ UNCHANGED <<notBranchVars, startVars, gitVars, caller, mgr, nops, ctxVars, patch_content, cbReturn,
                   testsExist, patchFileExists, report, reportStep, cleanupFailed, artefacts>>

\* create_branch_from_patch is left inside evaluate(): an exception goes to the
\* outer except, a return starts the pre-migration evaluation
EvAfterCreate ==
    /\ pc = "cb_out"
    /\ caller = "eval"
    /\ IF exc
       THEN /\ pc' = "ev_except"
            /\ UNCHANGED <<stage, ctxVars>>
       ELSE /\ stage' = "pre"
            /\ ctxBranch' = StageBranch("pre")
            /\ entryHead' = head
            /\ original_branch' = ""
            /\ ctxEntered' = FALSE
            /\ bodyHead' = ""
            /\ pc' = "ev_break"
    /\ UNCHANGED <<notBranchVars, startVars, gitVars, caller, mgr, exc, nops, cbVars,
                   testsExist, patchFileExists, report, reportStep, cleanupFailed, artefacts>>

\* _evaluate_for_branch: breakpoint() before the context is entered; the
\* debugger lets the call go on, or is quit (as it is at once when its input
\* is at end of file) and bdb.BdbQuit goes to the except Exception of the
\* branch in evaluate()
EvBreakpoint ==
    /\ pc = "ev_break"
    /\ \E quit \in BOOLEAN :
         IF quit
         THEN /\ report' = "failed"
              /\ reportStep' = stage
              /\ pc' = "ev_finally"
         ELSE /\ pc' = "ctx_show"
              /\ UNCHANGED <<report, reportStep>>
    /\ UNCHANGED <<notBranchVars, startVars, gitVars, caller, mgr, exc, nops, ctxVars, cbVars,
                   testsExist, patchFileExists, stage, cleanupFailed, artefacts>>

\* _evaluate_for_branch, in the context: self._copy_tests_to_container();
\* a docker cp that fails may have copied a part of the directory
EvCopyTests ==
    /\ pc = "ev_copy"
    /\ ctxEntered' = TRUE
    /\ bodyHead' = head
    /\ \E ok \in BOOLEAN, left \in BOOLEAN :
         IF ok
         THEN /\ pc' = "ev_pytest"
              /\ exc' = exc
              /\ artefacts' = artefacts \cup {"tests"}
         ELSE /\ pc' = "ev_cleanup"
              /\ exc' = TRUE
              /\ artefacts' = IF left THEN artefacts \cup {"tests"} ELSE artefacts
    /\ UNCHANGED <<notBranchVars, startVars, gitVars, caller, mgr, nops, ctxBranch, original_branch, entryHead,
                   cbVars, testsExist, patchFileExists, stage, report, reportStep, cleanupFailed>>

\* test_results = self.runner.run_pytest(...), up to its finally: the runner
\* script is written into the container, its run writes the result JSON, and
\* the JSON is read back and parsed
EvRunPytest ==
    /\ pc = "ev_pytest"
    /\ \E wrote \in BOOLEAN, ran \in BOOLEAN, ok \in BOOLEAN :
         IF ~wrote
         THEN exc' = TRUE /\ artefacts' = artefacts
         ELSE /\ artefacts' = artefacts \cup {"script"} \cup (IF ran THEN {"json"} ELSE {})
              /\ exc' = ~(ran /\ ok)
    /\ pc' = "ev_temp"
    /\ UNCHANGED <<notBranchVars, startVars, gitVars, caller, mgr, nops, ctxVars, cbVars,
                   testsExist, patchFileExists, stage, report, reportStep, cleanupFailed>>

\* the removal of the temporary files raises when the rm command fails
RemoveTempRaisesChecked(removed) == ~removed

\* run_pytest's finally: subprocess.run(cleanup_cmd, check=False, ...)
RemoveTempRaises(removed) == FALSE

\* run_pytest's finally: the temporary script and JSON file are removed
EvRemoveTemp ==
    /\ pc = "ev_temp"
    /\ \E removed \in BOOLEAN :
         /\ cleanupFailed' = AfterCleanup("temp", removed)
         /\ artefacts' = Removed({"script", "json"}, removed)
         /\ exc' = (exc \/ RemoveTempRaises(removed))
    /\ pc' = "ev_cleanup"
    /\ UNCHANGED <<notBranchVars, startVars, gitVars, caller, mgr, nops, ctxVars, cbVars,
                   testsExist, patchFileExists, stage, report, reportStep>>

\* the removal of the copied tests raises when the rm command fails
CleanupTestsRaisesChecked(removed) == ~removed

\* _cleanup_tests_from_container: subprocess.run without check, the status
\* of the rm command is not looked at
CleanupTestsRaises(removed) == FALSE

\* finally: self._cleanup_tests_from_container()
EvCleanupTests ==
    /\ pc = "ev_cleanup"
    /\ \E removed \in BOOLEAN :
         /\ cleanupFailed' = AfterCleanup("tests", removed)
         /\ artefacts' = Removed({"tests"}, removed)
         /\ exc' = (exc \/ CleanupTestsRaises(removed))
    /\ pc' = "ctx_finally"
    /\ UNCHANGED <<notBranchVars, startVars, gitVars, caller, mgr, nops, ctxVars, cbVars,
                   testsExist, patchFileExists, stage, report, reportStep>>

\* an except clause that lets evaluate() carry on with the next branch
CarriesOn(raised) == FALSE

\* try: ... = self._evaluate_for_branch(name) except Exception as e: return
\* {"error": ..., "status": "failed"}: the evaluation that raised is the last
ReturnsFailed(raised) == raised

\* the branch's context is left inside evaluate(): except Exception returns the
\* failed report of that branch, else the next branch or the scoring follows
EvAfterBranch ==
    /\ pc = "ctx_out"
    /\ caller = "eval"
    /\ IF ReturnsFailed(exc)
       THEN /\ report' = "failed"
            /\ reportStep' = stage
            /\ exc' = FALSE
            /\ pc' = "ev_finally"
            /\ UNCHANGED <<stage, ctxVars>>
       ELSE IF stage = "gen"
       THEN /\ stage' = "score"
            /\ pc' = "ev_score"
            /\ UNCHANGED <<report, reportStep, exc, ctxVars>>
       ELSE /\ stage' = NextStage(stage)
            /\ ctxBranch' = StageBranch(NextStage(stage))
            /\ entryHead' = head
            /\ original_branch' = ""
            /\ ctxEntered' = FALSE
            /\ bodyHead' = ""
            /\ pc' = "ev_break"
            /\ UNCHANGED <<report, reportStep, exc>>
    /\ UNCHANGED <<notBranchVars, startVars, gitVars, caller, mgr, nops, cbVars, testsExist, patchFileExists,
                   cleanupFailed, artefacts>>

\* eval_result = create_from_results(...); return {"status": "success"}
EvScore ==
    /\ pc = "ev_score"
    /\ report' = "success"
    /\ pc' = "ev_finally"
    /\ UNCHANGED <<notBranchVars, startVars, gitVars, caller, mgr, exc, nops, ctxVars, cbVars,
                   testsExist, patchFileExists, stage, reportStep, cleanupFailed, artefacts>>

\* except Exception as e: return {"error": ..., "status": "failed"}
EvExcept ==
    /\ pc = "ev_except"
    /\ report' = "failed"
    /\ reportStep' = "compute"
    /\ exc' = FALSE
    /\ pc' = "ev_finally"
    /\ UNCHANGED <<notBranchVars, startVars, gitVars, caller, mgr, nops, ctxVars, cbVars,
                   testsExist, patchFileExists, stage, cleanupFailed, artefacts>>

\* delete_branch(name) raises: _run_git(["branch", "-D", name]) fails on a
\* manager whose _run_git raises
DeleteBranchRaises(m, name) == ~GitOk(m, DeleteOk(name)) /\ RunGitRaises(m)

\* _delete_gen_patch_branch without its try / except
DeleteGenRaisesUncaught(m, name) == DeleteBranchRaises(m, name)

\* _delete_gen_patch_branch: try: delete_branch(...) except Exception: pass
DeleteGenRaises(m, name) == DeleteBranchRaises(m, name) /\ FALSE

\* the branches left by git branch -D name
BranchesAfterDelete(m, name) ==
    IF GitOk(m, DeleteOk(name)) THEN branches \ {name} ELSE branches

\* the state change of self._delete_gen_patch_branch()
DeleteGenPatchBranch ==
    /\ branches' = BranchesAfterDelete(mgr', GenPatch)
    /\ tip' = [b \in Names |-> IF b \in branches' THEN tip[b] ELSE NoTip]
    /\ exc' = (exc \/ DeleteGenRaises(mgr', GenPatch))
    /\ UNCHANGED <<head, wt, containerUp>>

\* finally: self._delete_gen_patch_branch(); evaluate() returns
EvFinally ==
    /\ pc = "ev_finally"
    /\ mgr' = mgr
    /\ DeleteGenPatchBranch
    /\ cleanupFailed' = AfterCleanup("branch", ~DeleteBranchRaises(mgr, GenPatch))
    /\ pc' = "done"
    /\ UNCHANGED <<notBranchVars, startVars, caller, nops, ctxVars, cbVars,
                   testsExist, patchFileExists, stage, report, reportStep, artefacts>>

\* evaluator._delete_gen_patch_branch() called on its own
StartDelete ==
    /\ pc = "idle"
    /\ wt = "clean"
    /\ nops < MaxOps
    /\ nops' = nops + 1
    /\ startHead' = head
    /\ startBranches' = branches
    /\ caller' = "delete"
    /\ mgr' = "docker"
    /\ DeleteGenPatchBranch
    /\ pc' = "done"
    /\ UNCHANGED <<notBranchVars, ctxVars, cbVars, evVars>>

\* the runner and manager classes of unit_test_utils.py
Classes == {"LocalPytestRunner", "LocalUTPRGitManager", "DockerPytestRunner", "DockerUTPRGitManager"}

\* __init__ of the class raises: the two Local classes start with
\* raise NotImplementedError("Local pytest runner not implemented!")
InitRaises(cls) == cls \in {"LocalPytestRunner", "LocalUTPRGitManager"}

\* cls(...): an object of the class is constructed
Construct(cls) ==
    /\ pc = "idle"
    /\ wt = "clean"
    /\ nops < MaxOps
    /\ nops' = nops + 1
    /\ startHead' = head
    /\ startBranches' = branches
    /\ caller' = "construct"
    /\ mgr' = cls
    /\ exc' = InitRaises(cls)
    /\ pc' = "done"
    /\ UNCHANGED <<notBranchVars, gitVars, ctxVars, cbVars, evVars>>

\* the operation is over; the repository stays as it was left
Finish ==
    /\ pc = "done"
    /\ pc' = "idle"
    /\ caller' = "none"
    /\ mgr' = "none"
    /\ exc' = FALSE
    /\ startHead' = ""
    /\ startBranches' = {}
    /\ ctxBranch' = ""
    /\ original_branch' = ""
    /\ entryHead' = ""
    /\ ctxEntered' = FALSE
    /\ bodyHead' = ""
    /\ old_branch_name' = ""
    /\ new_branch_name' = ""
    /\ patch_content' = <<>>
    /\ baseTip' = NoTip
    /\ cbReturn' = "none"
    /\ testsExist' = FALSE
    /\ patchFileExists' = FALSE
    /\ stage' = "none"
    /\ report' = "none"
    /\ reportStep' = "none"
    /\ cleanupFailed' = {}
    /\ artefacts' = {}
    /\ UNCHANGED <<notBranchVars, gitVars, nops>>

NextBranch ==
    \/ \E m \in {"git", "docker"}, X \in Names : StartContext(m, X)
    \/ CtxShowCurrent
    \/ CtxCheckout
    \/ CtxBody
    \/ CtxRestore
    \/ CtxReturn
    \/ \E m \in {"docker", "base"}, p \in BranchPatches :
         StartCreate(m, PreMig, GenPatch, p)
    \/ CbCheckoutOld
    \/ CbCheckoutNew
    \/ CbApplyDocker
    \/ CbApplyBase
    \/ CbCommit
    \/ CbCheckoutBack
    \/ CbRemovePatch
    \/ CbReturn
    \/ \E te \in BOOLEAN, pe \in BOOLEAN, p \in BranchPatches : StartEvaluate(te, pe, p)
    \/ EvCheckTestsPath
    \/ EvSetupGitInfo
    \/ EvInstallEditable
    \/ EvCreateGenPatchBranch
    \/ EvAfterCreate
    \/ EvBreakpoint
    \/ EvCopyTests
    \/ EvRunPytest
    \/ EvRemoveTemp
    \/ EvCleanupTests
    \/ EvAfterBranch
    \/ EvScore
    \/ EvExcept
    \/ EvFinally
    \/ StartDelete
    \/ \E cls \in Classes : Construct(cls)
    \/ Finish

SpecBranch == InitBranch /\ [][NextBranch]_vars

-----------------------------------------------------------------------------
(* PatchApplier.apply_patch_from_file: the evaluator package's               *)
(* (src/src/evaluator/utils/patch_utils.py) and the older copy               *)
(* (src/utils/patch_utils.py)                                                *)

InitPatch ==
    /\ BranchIdle
    /\ CollectIdle
    /\ ScoreIdle
    /\ FilterIdle
    /\ CompareIdle
    /\ RepoIdle
    /\ variant \in {"evaluator", "legacy"}
    /\ patch \in Patches
    /\ ppc = "chdir"
    /\ attempts = <<>>
    /\ applied = {}
    /\ rc = 0
    /\ applied_count = 0
    /\ result = "pending"
    /\ cwd = "original"

\* the outcome of one git apply invocation on the patch
RunGitApply(strategy, p) ==
    IF strategy = "strict" THEN GitApplyStrict(p)
    ELSE IF strategy = "reject" THEN GitApplyReject(p)
    ELSE IF strategy = "3way" THEN GitApply3way(p)
    ELSE GitApply3wayReject(p)

\* the options of the first git apply: --ignore-whitespace --reject --verbose
\* (evaluator package), --ignore-whitespace (older copy)
FirstStrategy(v) == IF v = "evaluator" THEN "reject" ELSE "strict"

\* the options of the second git apply: --ignore-whitespace --3way --reject --verbose
SecondStrategy == "3way+reject"

\* applied_count = stdout.count("Applied patch") + stderr.count("Applied patch");
\* the older copy does not count
AppliedCount(v, r) == IF v = "evaluator" THEN r.count ELSE 0

\* the applied_count test of the first attempt left out
ReturnsAfterFirstNoCount(v, rcv, cnt) == v = "legacy" \/ rcv = 0

\* after the first git apply the function returns (without a second attempt):
\* status 0, or a non-zero status with applied_count > 0; the older copy always
ReturnsAfterFirst(v, rcv, cnt) == v = "legacy" \/ rcv = 0 \/ cnt > 0

\* the value returned after the first git apply
ResultAfterFirst(v, rcv, cnt) == IF v = "legacy" THEN rcv = 0 ELSE TRUE

\* the value returned after the second git apply
ResultAfterSecond(rcv, cnt) == IF rcv # 0 THEN cnt > 0 ELSE rcv = 0

PyBool(b) == IF b THEN "True" ELSE "False"

\* original_cwd = os.getcwd(); os.chdir(self.working_dir); a raise
\* (missing directory) is caught: except Exception: return False
PaChdir ==
    /\ ppc = "chdir"
    /\ \E ok \in BOOLEAN :
         IF ok
         THEN ppc' = "first" /\ result' = result /\ cwd' = "working_dir"
         ELSE ppc' = "done" /\ result' = "False" /\ cwd' = cwd
    /\ UNCHANGED <<notPatchVars, variant, patch, attempts, applied, rc, applied_count>>

\* subprocess.run raises (no git executable, the patch path unusable):
\* except Exception: return False, with no os.chdir(original_cwd)
PaRunRaises ==
    /\ ppc \in {"first", "second"}
    /\ result' = "False"
    /\ ppc' = "done"
    /\ UNCHANGED <<notPatchVars, variant, patch, attempts, applied, rc, applied_count, cwd>>

\* result = subprocess.run(["git", "apply", ...first options..., patch_file_path])
PaRunFirst ==
    /\ ppc = "first"
    /\ LET r == RunGitApply(FirstStrategy(variant), patch)
       IN /\ attempts' = Append(attempts, [strategy |-> FirstStrategy(variant),
                                           rc |-> r.rc,
                                           count |-> AppliedCount(variant, r),
                                           hunks |-> r.hunks])
          /\ applied' = applied \cup r.hunks
          /\ rc' = r.rc
          /\ applied_count' = AppliedCount(variant, r)
    /\ ppc' = "after_first"
    /\ UNCHANGED <<notPatchVars, variant, patch, result, cwd>>

\* if result.returncode != 0: if applied_count > 0: return True ... (else the
\* second attempt); return result.returncode == 0
PaAfterFirst ==
    /\ ppc = "after_first"
    /\ IF ReturnsAfterFirst(variant, rc, applied_count)
       THEN /\ result' = PyBool(ResultAfterFirst(variant, rc, applied_count))
            /\ cwd' = "original"
            /\ ppc' = "done"
       ELSE /\ result' = result
            /\ cwd' = cwd
            /\ ppc' = "second"
    /\ UNCHANGED <<notPatchVars, variant, patch, attempts, applied, rc, applied_count>>

\* result = subprocess.run(["git", "apply", ..., "--3way", "--reject", ...])
PaRunSecond ==
    /\ ppc = "second"
    /\ LET r == RunGitApply(SecondStrategy, patch)
       IN /\ attempts' = Append(attempts, [strategy |-> SecondStrategy,
                                           rc |-> r.rc,
                                           count |-> AppliedCount(variant, r),
                                           hunks |-> r.hunks])
          /\ applied' = applied \cup r.hunks
          /\ rc' = r.rc
          /\ applied_count' = AppliedCount(variant, r)
    /\ ppc' = "after_second"
    /\ UNCHANGED <<notPatchVars, variant, patch, result, cwd>>

\* if result.returncode != 0: return applied_count > 0; return result.returncode == 0
PaAfterSecond ==
    /\ ppc = "after_second"
    /\ result' = PyBool(ResultAfterSecond(rc, applied_count))
    /\ cwd' = "original"
    /\ ppc' = "done"
    /\ UNCHANGED <<notPatchVars, variant, patch, attempts, applied, rc, applied_count>>

NextPatch ==
    \/ PaChdir
    \/ PaRunRaises
    \/ PaRunFirst
    \/ PaAfterFirst
    \/ PaRunSecond
    \/ PaAfterSecond

SpecPatch == InitPatch /\ [][NextPatch]_vars

-----------------------------------------------------------------------------
(* CollectResultsPlugin *)

Phases == {"setup", "call", "teardown"}

\* report.outcome as pytest sets it
ReportOutcomes == {"passed", "failed", "skipped"}

\* report.duration: missing or zero, or a positive time
Durations == {0, 1}

InitCollect ==
    /\ BranchIdle
    /\ PatchIdle
    /\ CollectIdle
    /\ ScoreIdle
    /\ FilterIdle
    /\ CompareIdle
    /\ RepoIdle

\* precedence = {"error": 5, "failed": 4, "xpassed": 4, "xfailed": 3,
\*               "skipped": 2, "passed": 1, "": 0}
Precedence(o) ==
    CASE o = "error" -> 5
      [] o = "failed" -> 4
      [] o = "xpassed" -> 4
      [] o = "xfailed" -> 3
      [] o = "skipped" -> 2
      [] o = "passed" -> 1
      [] OTHER -> 0

\* set_outcome without the precedence test: the last status wins
SetOutcomeLast(current, o) == o

\* set_outcome(o): if precedence[o] >= precedence.get(current, 0): outcome = o
SetOutcome(current, o) == IF Precedence(o) >= Precedence(current) THEN o ELSE current

\* if hasattr(report, "wasxfail"): skipped -> "xfailed", failed -> "xpassed"
XfailOutcome(outcome, wasxfail) ==
    IF wasxfail /\ outcome = "skipped" THEN "xfailed"
    ELSE IF wasxfail /\ outcome = "failed" THEN "xpassed"
    ELSE outcome

\* if report.when in ("setup", "teardown") and report.failed
IsPhaseError(when, outcome) == when \in {"setup", "teardown"} /\ outcome = "failed"

\* _ensure_result(report)
EnsureResult(r, when) ==
    IF r.present THEN r
    ELSE [present |-> TRUE, outcome |-> "", when |-> when, duration |-> 0,
          longrepr |-> FALSE]

\* the result dict of the report's nodeid after pytest_runtest_logreport(report)
LogReport(r0, when, outcome, wasxfail, duration) ==
    LET r1 == [EnsureResult(r0, when) EXCEPT !.duration = @ + duration, !.when = when]
    IN IF IsPhaseError(when, outcome)
       THEN [r1 EXCEPT !.outcome = SetOutcome(@, "error"), !.longrepr = TRUE]
       ELSE IF when # "call"
       THEN r1
       ELSE [r1 EXCEPT !.outcome = SetOutcome(@, XfailOutcome(outcome, wasxfail)),
                       !.longrepr = (@ \/ XfailOutcome(outcome, wasxfail) # "passed")]

\* the status a phase report carries: error for a failed setup or teardown,
\* else the report's outcome (xfailed / xpassed when marked)
PhaseStatus(when, outcome, wasxfail) ==
    IF IsPhaseError(when, outcome) THEN "error" ELSE XfailOutcome(outcome, wasxfail)

\* ---- the CollectResultsPlugin class inside the runner script that
\* DockerPytestRunner writes to the container

ScriptPrecedence(o) ==
    CASE o = "error" -> 5
      [] o = "failed" -> 4
      [] o = "xpassed" -> 4
      [] o = "xfailed" -> 3
      [] o = "skipped" -> 2
      [] o = "passed" -> 1
      [] OTHER -> 0

\* the runner script's set_outcome with ">" in place of ">="
ScriptSetOutcomeStrict(current, o) ==
    IF ScriptPrecedence(o) > ScriptPrecedence(current) THEN o ELSE current

ScriptSetOutcome(current, o) ==
    IF ScriptPrecedence(o) >= ScriptPrecedence(current) THEN o ELSE current

ScriptEnsureResult(r, when) ==
    IF r.present THEN r
    ELSE [present |-> TRUE, outcome |-> "", when |-> when, duration |-> 0,
          longrepr |-> FALSE]

ScriptLogReport(r0, when, outcome, wasxfail, duration) ==
    LET r1 == [ScriptEnsureResult(r0, when) EXCEPT !.duration = @ + duration,
                                                    !.when = when]
        o  == IF wasxfail /\ outcome = "skipped" THEN "xfailed"
              ELSE IF wasxfail /\ outcome = "failed" THEN "xpassed"
              ELSE outcome
    IN IF when \in {"setup", "teardown"} /\ outcome = "failed"
       THEN [r1 EXCEPT !.outcome = ScriptSetOutcome(@, "error"), !.longrepr = TRUE]
       ELSE IF when # "call"
       THEN r1
       ELSE [r1 EXCEPT !.outcome = ScriptSetOutcome(@, o),
                       !.longrepr = (@ \/ o # "passed")]

\* a report is handed to the plugin (pytest calls the hook once per phase);
\* the same report stream is handed to the runner script's plugin
PytestRuntestLogreport(n, when, outcome, wasxfail, duration) ==
    /\ nreports < MaxReports
    /\ nreports' = nreports + 1
    /\ results' = [results EXCEPT ![n] = LogReport(@, when, outcome, wasxfail, duration)]
    /\ scriptResults' = [scriptResults EXCEPT
                            ![n] = ScriptLogReport(@, when, outcome, wasxfail, duration)]
    /\ seen' = [seen EXCEPT ![n] = @ \cup {<<when, PhaseStatus(when, outcome, wasxfail)>>}]
    /\ UNCHANGED notCollectVars

NextCollect ==
    \E n \in NodeIds, when \in Phases, outcome \in ReportOutcomes,
       wasxfail \in BOOLEAN, duration \in Durations :
        PytestRuntestLogreport(n, when, outcome, wasxfail, duration)

SpecCollect == InitCollect /\ [][NextCollect]_vars

\* list(plugin.results.values()): the result dicts, one per nodeid seen
ResultDict(n, r) ==
    [nodeid |-> n, outcome |-> r.outcome, when |-> r.when,
     duration |-> r.duration, longrepr |-> r.longrepr]

ResultsValues(res) == {ResultDict(n, res[n]) : n \in {m \in NodeIds : res[m].present}}

\* json.dump(results, f): strings and numbers as JSON strings and numbers, None
\* as null
JsonDump(d) ==
    <<<<"nodeid", "s", d.nodeid>>, <<"outcome", "s", d.outcome>>,
      <<"when", "s", d.when>>, <<"duration", "n", d.duration>>,
      IF d.longrepr THEN <<"longrepr", "s", "text">> ELSE <<"longrepr", "null", "">>>>

\* json.loads(result.stdout)
JsonLoads(j) ==
    [nodeid |-> j[1][3], outcome |-> j[2][3], when |-> j[3][3],
     duration |-> j[4][3], longrepr |-> j[5][2] # "null"]

\* LocalPytestRunner.run_pytest: return list(plugin.results.values())
LocalRunPytest == ResultsValues(results)

\* DockerPytestRunner.run_pytest: the script dumps its plugin's results to the
\* JSON file, the host reads the file and parses it
DockerRunPytest == {JsonLoads(JsonDump(d)) : d \in ResultsValues(scriptResults)}

-----------------------------------------------------------------------------
(* UnitTestResult and UnitTestPassRateEvalResult.create_from_results.  A   *)
(* UnitTestResult holds a list of result dicts; a dict is modelled by its   *)
(* nodeid and outcome.  A score is the fraction maintained / baseline.      *)

ScoreOutcomes == {"passed", "failed", "skipped"}

ResultDicts == [nodeid : NodeIds, outcome : ScoreOutcomes]

InitScore ==
    /\ BranchIdle
    /\ PatchIdle
    /\ CollectIdle
    /\ FilterIdle
    /\ CompareIdle
    /\ RepoIdle
    /\ \E a \in 0..MaxResults, b \in 0..MaxResults, c \in 0..MaxResults :
          /\ a + b + c <= MaxResults
          /\ pre_mig_result \in [1..a -> ResultDicts]
          /\ gt_patch_result \in [1..b -> ResultDicts]
          /\ gen_patch_result \in [1..c -> ResultDicts]
    /\ spc = "start"
    /\ baseline_passing_tests = {}
    /\ baseline_count = 0
    /\ gt_patch_score = NoScore
    /\ gt_maintained_count = 0
    /\ gen_patch_score = NoScore
    /\ gen_maintained_count = 0
    /\ eval_json = <<>>
    /\ loaded = <<>>

\* the number of records of a run, passed or not
GetTotalCount(rs) == Len(rs)

\* get_pass_count: sum(1 for r in self.results if r.get("outcome") == "passed")
GetPassCount(rs) == Cardinality({i \in DOMAIN rs : rs[i].outcome = "passed"})

\* the nodeids whose outcome is passed or skipped
GetPassedOrSkippedNodeids(rs) ==
    {rs[i].nodeid : i \in {j \in DOMAIN rs : rs[j].outcome \in {"passed", "skipped"}}}

\* get_passing_test_nodeids: {r["nodeid"] for r in self.results if r.get("outcome") == "passed"}
GetPassingTestNodeids(rs) ==
    {rs[i].nodeid : i \in {j \in DOMAIN rs : rs[j].outcome = "passed"}}

IsIn(r, nodeid_set) == r.nodeid \in nodeid_set

\* a filter that keeps every result
FilterKeepAll(rs, nodeid_set) == rs

\* filter_by_nodeids: [r for r in self.results if r.get("nodeid") in nodeid_set]
FilterByNodeids(rs, nodeid_set) == SelectSeq(rs, LAMBDA r : IsIn(r, nodeid_set))

\* the pass rate of the compared run in place of the regression score
ComputeScoreOverTotal(baseline, post_mig_result) ==
    LET maintained_count == GetPassCount(FilterByNodeids(post_mig_result, baseline))
    IN IF GetTotalCount(post_mig_result) = 0
       THEN [score |-> NoScore, maintained_count |-> 0]
       ELSE [score |-> [num |-> maintained_count, den |-> GetTotalCount(post_mig_result)],
             maintained_count |-> maintained_count]

\* _compute_score(baseline_passing_tests, post_mig_result)
ComputeScore(baseline, post_mig_result) ==
    IF baseline = {}
    THEN [score |-> NoScore, maintained_count |-> 0]
    ELSE LET filtered_result == FilterByNodeids(post_mig_result, baseline)
             maintained_count == GetPassCount(filtered_result)
         IN [score |-> [num |-> maintained_count, den |-> Cardinality(baseline)],
             maintained_count |-> maintained_count]

\* baseline_passing_tests = pre_mig_result.get_passing_test_nodeids()
\* baseline_count = len(baseline_passing_tests)
CfBaseline ==
    /\ spc = "start"
    /\ baseline_passing_tests' = GetPassingTestNodeids(pre_mig_result)
    /\ baseline_count' = Cardinality(GetPassingTestNodeids(pre_mig_result))
    /\ spc' = "gt"
    /\ UNCHANGED <<notScoreVars, eval_json, loaded, pre_mig_result, gt_patch_result, gen_patch_result,
                   gt_patch_score, gt_maintained_count, gen_patch_score,
                   gen_maintained_count>>

\* gt_patch_score, gt_maintained_count = cls._compute_score(baseline, gt_patch_result)
CfGtScore ==
    /\ spc = "gt"
    /\ gt_patch_score' = ComputeScore(baseline_passing_tests, gt_patch_result).score
    /\ gt_maintained_count' =
          ComputeScore(baseline_passing_tests, gt_patch_result).maintained_count
    /\ spc' = "gen"
    /\ UNCHANGED <<notScoreVars, eval_json, loaded, pre_mig_result, gt_patch_result, gen_patch_result,
                   baseline_passing_tests, baseline_count, gen_patch_score,
                   gen_maintained_count>>

\* gen_patch_score, gen_maintained_count = cls._compute_score(baseline, gen_patch_result)
CfGenScore ==
    /\ spc = "gen"
    /\ gen_patch_score' = ComputeScore(baseline_passing_tests, gen_patch_result).score
    /\ gen_maintained_count' =
          ComputeScore(baseline_passing_tests, gen_patch_result).maintained_count
    /\ spc' = "return"
    /\ UNCHANGED <<notScoreVars, eval_json, loaded, pre_mig_result, gt_patch_result, gen_patch_result,
                   baseline_passing_tests, baseline_count, gt_patch_score,
                   gt_maintained_count>>

\* return cls(pre_mig_result, ..., gen_maintained_count)
CfReturn ==
    /\ spc = "return"
    /\ spc' = "done"
    /\ UNCHANGED <<notScoreVars, eval_json, loaded, pre_mig_result, gt_patch_result, gen_patch_result,
                   baseline_passing_tests, baseline_count, gt_patch_score,
                   gt_maintained_count, gen_patch_score, gen_maintained_count>>

\* get_fail_count: sum(1 for r in self.results if r.get("outcome") == "failed")
GetFailCount(rs) == Cardinality({i \in DOMAIN rs : rs[i].outcome = "failed"})

\* get_pass_rate: 0.0 for no results, else (pass_count / total) * 100.0
GetPassRate(rs) ==
    IF GetTotalCount(rs) = 0 THEN NoScore
    ELSE [num |-> GetPassCount(rs) * 100, den |-> GetTotalCount(rs)]

\* UnitTestResult.to_dict()
ResultToDict(rs) ==
    [total_count |-> GetTotalCount(rs), pass_count |-> GetPassCount(rs),
     fail_count |-> GetFailCount(rs), pass_rate |-> GetPassRate(rs), results |-> rs]

\* a from_dict that reads a key to_dict does not write: data.get(..., [])
FromDictNoResults(data) == <<>>

\* UnitTestResult.from_dict(data): cls(data.get("results", []))
FromDict(data) == data.results

\* the object create_from_results returns
Created ==
    [pre_mig_result |-> pre_mig_result, gt_patch_result |-> gt_patch_result,
     gen_patch_result |-> gen_patch_result,
     gt_patch_score |-> gt_patch_score, gen_patch_score |-> gen_patch_score,
     baseline_passing_test_count |-> baseline_count,
     gt_maintained_passing_count |-> gt_maintained_count,
     gen_maintained_passing_count |-> gen_maintained_count]

\* UnitTestPassRateEvalResult.to_dict()
ToDict(o) ==
    [pre_mig_result |-> ResultToDict(o.pre_mig_result),
     gt_patch_result |-> ResultToDict(o.gt_patch_result),
     gen_patch_result |-> ResultToDict(o.gen_patch_result),
     gt_patch_score |-> o.gt_patch_score, gen_patch_score |-> o.gen_patch_score,
     baseline_passing_test_count |-> o.baseline_passing_test_count,
     gt_maintained_passing_count |-> o.gt_maintained_passing_count,
     gen_maintained_passing_count |-> o.gen_maintained_passing_count]

\* json.dump of a value of to_dict(): a number as a JSON number (a float is
\* written in full and reads back as the same float), a string as a JSON
\* string, a list as an array, a dict as an object of its keys
DumpNumber(n) == <<"n", n>>

DumpResults(rs) ==
    [i \in DOMAIN rs |-> <<"o", <<<<"nodeid", <<"s", rs[i].nodeid>>>>,
                                  <<"outcome", <<"s", rs[i].outcome>>>>>>>>]

DumpRun(u) ==
    <<"o", [total_count |-> DumpNumber(u.total_count), pass_count |-> DumpNumber(u.pass_count),
            fail_count |-> DumpNumber(u.fail_count), pass_rate |-> DumpNumber(u.pass_rate),
            results |-> <<"a", DumpResults(u.results)>>]>>

ScoreJsonDump(d) ==
    [pre_mig_result |-> DumpRun(d.pre_mig_result),
     gt_patch_result |-> DumpRun(d.gt_patch_result),
     gen_patch_result |-> DumpRun(d.gen_patch_result),
     gt_patch_score |-> DumpNumber(d.gt_patch_score),
     gen_patch_score |-> DumpNumber(d.gen_patch_score),
     baseline_passing_test_count |-> DumpNumber(d.baseline_passing_test_count),
     gt_maintained_passing_count |-> DumpNumber(d.gt_maintained_passing_count),
     gen_maintained_passing_count |-> DumpNumber(d.gen_maintained_passing_count)]

\* json.load of that text
LoadResults(a) ==
    [i \in DOMAIN a |-> [nodeid |-> a[i][2][1][2][2], outcome |-> a[i][2][2][2][2]]]

LoadRun(j) ==
    [total_count |-> j[2].total_count[2], pass_count |-> j[2].pass_count[2],
     fail_count |-> j[2].fail_count[2], pass_rate |-> j[2].pass_rate[2],
     results |-> LoadResults(j[2].results[2])]

ScoreJsonLoad(j) ==
    [pre_mig_result |-> LoadRun(j.pre_mig_result),
     gt_patch_result |-> LoadRun(j.gt_patch_result),
     gen_patch_result |-> LoadRun(j.gen_patch_result),
     gt_patch_score |-> j.gt_patch_score[2], gen_patch_score |-> j.gen_patch_score[2],
     baseline_passing_test_count |-> j.baseline_passing_test_count[2],
     gt_maintained_passing_count |-> j.gt_maintained_passing_count[2],
     gen_maintained_passing_count |-> j.gen_maintained_passing_count[2]]

\* load_from_json: data = json.load(f); return cls(pre_mig_result =
\* UnitTestResult.from_dict(data["pre_mig_result"]), ..., the five stored
\* numbers as read)
LoadFromJson(j) ==
    LET data == ScoreJsonLoad(j)
    IN [pre_mig_result |-> FromDict(data.pre_mig_result),
        gt_patch_result |-> FromDict(data.gt_patch_result),
        gen_patch_result |-> FromDict(data.gen_patch_result),
        gt_patch_score |-> data.gt_patch_score, gen_patch_score |-> data.gen_patch_score,
        baseline_passing_test_count |-> data.baseline_passing_test_count,
        gt_maintained_passing_count |-> data.gt_maintained_passing_count,
        gen_maintained_passing_count |-> data.gen_maintained_passing_count]

\* json.dump(result.to_dict(), f)
ErToDict ==
    /\ spc = "done"
    /\ eval_json' = ScoreJsonDump(ToDict(Created))
    /\ spc' = "saved"
    /\ UNCHANGED <<notScoreVars, loaded, pre_mig_result, gt_patch_result, gen_patch_result,
                   baseline_passing_tests, baseline_count, gt_patch_score,
                   gt_maintained_count, gen_patch_score, gen_maintained_count>>

\* UnitTestPassRateEvalResult.load_from_json(json_path)
ErLoadFromJson ==
    /\ spc = "saved"
    /\ loaded' = LoadFromJson(eval_json)
    /\ spc' = "loaded"
    /\ UNCHANGED <<notScoreVars, eval_json, pre_mig_result, gt_patch_result, gen_patch_result,
                   baseline_passing_tests, baseline_count, gt_patch_score,
                   gt_maintained_count, gen_patch_score, gen_maintained_count>>

NextScore ==
    \/ CfBaseline
    \/ CfGtScore
    \/ CfGenScore
    \/ CfReturn
    \/ ErToDict
    \/ ErLoadFromJson

SpecScore == InitScore /\ [][NextScore]_vars

-----------------------------------------------------------------------------
(* mig_diff_filter.py.  A file is the sequence of its lines; the "line"    *)
(* value of a code change is a sequence of characters.                     *)

Digits == <<"0", "1", "2", "3", "4", "5", "6", "7", "8", "9">>

IsDigit(c) == \E d \in DOMAIN Digits : Digits[d] = c

DigitValue(c) == (CHOOSE d \in DOMAIN Digits : Digits[d] = c) - 1

RECURSIVE Str(_)
\* the decimal digits of a line number
Str(n) == IF n < 10 THEN <<Digits[n + 1]>> ELSE Str(n \div 10) \o <<Digits[(n % 10) + 1]>>

\* "{start}" or "{start}-{end}"
FormatRange(r) == IF r[1] = r[2] THEN Str(r[1]) ELSE Str(r[1]) \o <<"-">> \o Str(r[2])

\* "{old_start}[-{old_end}]:{new_start}[-{new_end}]"
LineSpec(old_range, new_range) == FormatRange(old_range) \o <<":">> \o FormatRange(new_range)

RECURSIVE Split(_, _)
\* str.split(sep): the parts between the separators, empty parts included
Split(str, sep) ==
    IF \A i \in DOMAIN str : str[i] # sep
    THEN <<str>>
    ELSE LET k == CHOOSE i \in DOMAIN str :
                      str[i] = sep /\ \A j \in 1..(i - 1) : str[j] # sep
         IN <<SubSeq(str, 1, k - 1)>> \o Split(SubSeq(str, k + 1, Len(str)), sep)

\* int(n) raises ValueError unless n is a non-empty string of digits
IntOk(str) == str # <<>> /\ \A i \in DOMAIN str : IsDigit(str[i])

RECURSIVE PyInt(_)
PyInt(str) ==
    IF str = <<>> THEN 0
    ELSE PyInt(SubSeq(str, 1, Len(str) - 1)) * 10 + DigitValue(str[Len(str)])

\* one side of a line spec: [int(n) for n in s.split("-")], one number is a
\* one-line range, of more than two the first two are taken
ParseRange(str) ==
    LET parts == Split(str, "-")
    IN IF \E i \in DOMAIN parts : ~IntOk(parts[i])
       THEN [ok |-> FALSE, range |-> <<0, 0>>]
       ELSE IF Len(parts) = 1
       THEN [ok |-> TRUE, range |-> <<PyInt(parts[1]), PyInt(parts[1])>>]
       ELSE [ok |-> TRUE, range |-> <<PyInt(parts[1]), PyInt(parts[2])>>]

\* parse_line_spec(line_spec); ok = FALSE stands for the ValueError raised
ParseLineSpec(line_spec) ==
    LET halves == Split(line_spec, ":")
    IN IF Len(halves) # 2
       THEN [ok |-> FALSE, change |-> <<<<0, 0>>, <<0, 0>>>>]
       ELSE [ok |-> ParseRange(halves[1]).ok /\ ParseRange(halves[2]).ok,
             change |-> <<ParseRange(halves[1]).range, ParseRange(halves[2]).range>>]

RECURSIVE CodeChangeRangesKeepBad(_)
\* a loop over code_changes that turns an entry with no "line" value or an
\* unparsable one into a change of line 1 instead of skipping it
CodeChangeRangesKeepBad(changes) ==
    IF changes = <<>> THEN <<>>
    ELSE LET line_spec == Head(changes)
             rest == CodeChangeRangesKeepBad(Tail(changes))
         IN IF line_spec = <<>> \/ ~ParseLineSpec(line_spec).ok
            THEN <<<<<<1, 1>>, <<1, 1>>>>>> \o rest
            ELSE <<ParseLineSpec(line_spec).change>> \o rest

RECURSIVE CodeChangeRanges(_)
\* the loop over code_changes: an entry with no "line" value or one that
\* does not parse is skipped
CodeChangeRanges(changes) ==
    IF changes = <<>> THEN <<>>
    ELSE LET line_spec == Head(changes)
             rest == CodeChangeRanges(Tail(changes))
         IN IF line_spec = <<>> \/ ~ParseLineSpec(line_spec).ok
            THEN rest
            ELSE <<ParseLineSpec(line_spec).change>> \o rest

\* x goes behind every element whose key is not greater than its own
InsertByOldStart(sorted, x) ==
    LET before == {i \in DOMAIN sorted : sorted[i][1][1] <= x[1][1]}
        k == Cardinality(before)
    IN SubSeq(sorted, 1, k) \o <<x>> \o SubSeq(sorted, k + 1, Len(sorted))

\* the changes left in the order they are listed
Unsorted(changes) == changes

RECURSIVE Sorted(_)
\* sorted(all_changes, key=lambda x: x[0][0]): ascending by old start, stable
Sorted(changes) ==
    IF changes = <<>> THEN <<>>
    ELSE InsertByOldStart(Sorted(SubSeq(changes, 1, Len(changes) - 1)),
                          changes[Len(changes)])

\* a slice that leaves out the last line of the range
PySliceShort(list, a, b) ==
    LET hi == IF b - 1 < Len(list) THEN b - 1 ELSE Len(list)
    IN IF a + 1 <= hi THEN SubSeq(list, a + 1, hi) ELSE <<>>

\* list[a:b] for 0 <= a: the elements at 0-based positions a .. b-1 that exist
PySlice(list, a, b) ==
    LET hi == IF b < Len(list) THEN b ELSE Len(list)
    IN IF a + 1 <= hi THEN SubSeq(list, a + 1, hi) ELSE <<>>

\* should_replace with "<=" in place of "<"
ShouldReplaceLate(lineno, idx, changes) ==
    IF idx >= Len(changes) THEN FALSE
    ELSE IF lineno <= changes[idx + 1][1][1] THEN FALSE
    ELSE TRUE

\* should_replace(old_lineno), with cur_change_idx and all_changes
ShouldReplace(lineno, idx, changes) ==
    IF idx >= Len(changes) THEN FALSE
    ELSE IF lineno < changes[idx + 1][1][1] THEN FALSE
    ELSE TRUE

RECURSIVE Walk(_, _, _, _)
\* the while loop of clever_way_to_replace_old_range_with_new_range from
\* old_lineno = lineno and cur_change_idx = idx, as a function: the list
\* returned, acc being new_file_mig_only so far
Walk(lineno, idx, changes, acc) ==
    IF lineno > Len(old_file) THEN acc
    ELSE IF ~ShouldReplace(lineno, idx, changes)
    THEN Walk(lineno + 1, idx, changes, Append(acc, old_file[lineno]))
    ELSE Walk(changes[idx + 1][1][2] + 1, idx + 1, changes,
              acc \o PySlice(new_file, changes[idx + 1][2][1] - 1, changes[idx + 1][2][2]))

\* clever_way_to_replace_old_range_with_new_range(changes, old_file, new_file)
CleverWay(changes) ==
    IF changes = <<>> THEN old_file ELSE Walk(1, 0, Sorted(changes), <<>>)

\* the lines of the generic files: every line differs from every other
OldLabels == <<"o1", "o2", "o3", "o4", "o5", "o6", "o7", "o8", "o9">>
NewLabels == <<"n1", "n2", "n3", "n4", "n5">>

OldLines(n) == [i \in 1..n |-> OldLabels[i]]
NewLines(n) == [i \in 1..n |-> NewLabels[i]]

\* the "line" values an entry of the old file of n lines may carry: any old
\* range over 1..n+1 (reversed and past the end included) with a range of
\* the new file, an empty value, and a value that is no line spec
LineSpecs(n) ==
    {LineSpec(o, w) : o \in (1..(n + 1)) \X (1..(n + 1)),
                      w \in {r \in (1..MaxNewLines) \X (1..MaxNewLines) : r[1] <= r[2]}}
    \cup {<<>>, <<"x">>}

\* the example files
ExampleOld == <<"a", "b", "c", "d", "e">>
ExampleNew == <<"a", "B2", "B3", "d", "e">>

\* a file before and after a migration that rewrote its lines 2 and 4, with
\* the line specs that declare those changes rightly or wrongly
MigratedOld == <<"a", "b", "c", "d">>
MigratedNew == <<"a", "B1", "B2", "c", "D">>
MigratedSpecs ==
    {LineSpec(o, w) : o \in {<<2, 2>>, <<4, 4>>, <<2, 3>>},
                      w \in {<<2, 3>>, <<5, 5>>, <<2, 2>>, <<4, 5>>}}

\* a call of filter_file_using_mig_diff with files and code changes of at
\* most the given size, nothing done yet
FilterCalled(size) ==
    /\ \/ \E n \in 0..size, c \in 0..size :
             /\ n + 2 * c <= size
             /\ old_file = OldLines(n)
             /\ new_file = NewLines(MaxNewLines)
             /\ code_changes \in [1..c -> LineSpecs(n)]
       \/ /\ old_file = ExampleOld
          /\ new_file = ExampleNew
          /\ code_changes \in {<<<<"2", ":", "2", "-", "3">>>>,
                               <<<<"2", "-", "3", ":", "2", "-", "3">>>>}
       \/ \E c \in 1..2 :
             /\ old_file = MigratedOld
             /\ new_file = MigratedNew
             /\ code_changes \in [1..c -> MigratedSpecs]
    /\ fpc = "start"
    /\ all_changes = <<>>
    /\ old_lineno = 0
    /\ cur_change_idx = 0
    /\ new_file_mig_only = <<>>
    /\ output = <<>>

InitFilter ==
    /\ BranchIdle
    /\ PatchIdle
    /\ CollectIdle
    /\ ScoreIdle
    /\ CompareIdle
    /\ RepoIdle
    /\ FilterCalled(MaxSize)

\* the calls whose termination is checked
InitFilterLive ==
    /\ BranchIdle
    /\ PatchIdle
    /\ CollectIdle
    /\ ScoreIdle
    /\ CompareIdle
    /\ RepoIdle
    /\ FilterCalled(MaxLiveSize)

\* filter_file_using_mig_diff: both files are read and the code changes parsed
FfParse ==
    /\ fpc = "start"
    /\ all_changes' = CodeChangeRanges(code_changes)
    /\ fpc' = IF CodeChangeRanges(code_changes) = <<>> THEN "copy" ELSE "call"
    /\ UNCHANGED <<notFilterVars, old_file, new_file, code_changes, old_lineno,
                   cur_change_idx, new_file_mig_only, output>>

\* if not code_change_ranges: shutil.copy(old_file_path, output_path)
FfCopyOld ==
    /\ fpc = "copy"
    /\ output' = old_file
    /\ fpc' = "done"
    /\ UNCHANGED <<notFilterVars, old_file, new_file, code_changes, all_changes,
                   old_lineno, cur_change_idx, new_file_mig_only>>

\* clever_way_to_replace_old_range_with_new_range: up to the loop
CwEnter ==
    /\ fpc = "call"
    /\ IF all_changes = <<>>
       THEN /\ new_file_mig_only' = old_file
            /\ fpc' = "write"
            /\ UNCHANGED <<all_changes, old_lineno, cur_change_idx>>
       ELSE /\ all_changes' = Sorted(all_changes)
            /\ new_file_mig_only' = <<>>
            /\ old_lineno' = 1
            /\ cur_change_idx' = 0
            /\ fpc' = "loop"
    /\ UNCHANGED <<notFilterVars, old_file, new_file, code_changes, output>>

\* loop body, not should_replace(old_lineno): keep the old line
CwKeep ==
    /\ fpc = "loop"
    /\ old_lineno <= Len(old_file)
    /\ ~ShouldReplace(old_lineno, cur_change_idx, all_changes)
    /\ new_file_mig_only' = Append(new_file_mig_only, old_file[old_lineno])
    /\ old_lineno' = old_lineno + 1
    /\ UNCHANGED <<notFilterVars, old_file, new_file, code_changes, fpc, all_changes,
                   cur_change_idx, output>>

\* the change index left where it is
SameChange(idx) == idx

\* cur_change_idx += 1
NextChange(idx) == idx + 1

\* loop body, should_replace(old_lineno): skip the old range, add the new one
CwReplace ==
    /\ fpc = "loop"
    /\ old_lineno <= Len(old_file)
    /\ ShouldReplace(old_lineno, cur_change_idx, all_changes)
    /\ LET cur_change == all_changes[cur_change_idx + 1]
           cur_old_range == cur_change[1]
           cur_new_range == cur_change[2]
       IN /\ old_lineno' = cur_old_range[2] + 1
          /\ new_file_mig_only' =
                new_file_mig_only \o PySlice(new_file, cur_new_range[1] - 1, cur_new_range[2])
    /\ cur_change_idx' = NextChange(cur_change_idx)
    /\ UNCHANGED <<notFilterVars, old_file, new_file, code_changes, fpc, all_changes,
                   output>>

\* the loop ends: return new_file_mig_only
CwReturn ==
    /\ fpc = "loop"
    /\ old_lineno > Len(old_file)
    /\ fpc' = "write"
    /\ UNCHANGED <<notFilterVars, old_file, new_file, code_changes, all_changes,
                   old_lineno, cur_change_idx, new_file_mig_only, output>>

\* f.write("".join(new_file_mig_only)); return True
FfWrite ==
    /\ fpc = "write"
    /\ output' = new_file_mig_only
    /\ fpc' = "done"
    /\ UNCHANGED <<notFilterVars, old_file, new_file, code_changes, all_changes,
                   old_lineno, cur_change_idx, new_file_mig_only>>

NextFilter ==
    \/ FfParse
    \/ FfCopyOld
    \/ CwEnter
    \/ CwKeep
    \/ CwReplace
    \/ CwReturn
    \/ FfWrite

SpecFilter == InitFilter /\ [][NextFilter]_vars

\* a step of clever_way_to_replace_old_range_with_new_range
CleverWayStep == CwEnter \/ CwKeep \/ CwReplace \/ CwReturn

\* the splicer is straight-line code around one while loop and runs in one
\* thread: once called, a step of it that can be taken is taken
SpecFilterLive == InitFilterLive /\ [][NextFilter]_vars /\ WF_vars(CleverWayStep)

-----------------------------------------------------------------------------
(* PatchSimilarityEvaluator.evaluate and ASTComparator                       *)
(* (src/src/evaluator/evaluators/patch_similarity.py,                        *)
(*  src/src/evaluator/utils/ast_utils.py)                                    *)

\* the characters of a file: code, a comment character that the syntax tree
\* does not keep, and a character that makes the file a syntax error
Chars == {"x", "#", "("}

\* a tree with the given files at its three paths
Tree(a, b, md) == [p \in Paths |-> IF p = "a.py" THEN a ELSE IF p = "b.py" THEN b ELSE md]

\* the files of n characters
FilesOfLen(n) == {[exists |-> TRUE, text |-> t] : t \in [1..n -> Chars]}

InitCompare ==
    /\ BranchIdle
    /\ PatchIdle
    /\ CollectIdle
    /\ ScoreIdle
    /\ FilterIdle
    /\ RepoIdle
    /\ \E a1, b1, a2, b2 \in 0..MaxChars :
         /\ a1 + b1 + a2 + b2 <= MaxChars
         /\ \E fa1 \in FilesOfLen(a1) \cup (IF a1 = 0 THEN {NoFile} ELSE {}),
               fb1 \in FilesOfLen(b1) \cup (IF b1 = 0 THEN {NoFile} ELSE {}),
               fa2 \in FilesOfLen(a2) \cup (IF a2 = 0 THEN {NoFile} ELSE {}),
               fb2 \in FilesOfLen(b2) \cup (IF b2 = 0 THEN {NoFile} ELSE {}),
               md \in {NoFile, EmptyFile} :
              /\ dir1 = Tree(fa1, fb1, md)
              /\ dir2 = Tree(fa2, fb2, md)
    /\ simpc = "start"
    /\ mode = "none"
    /\ failure = "none"
    /\ common_files = {}
    /\ similarities = <<>>
    /\ similarity_score = NoScore
    /\ score_file = <<>>
    /\ simReport = "none"

\* glob.glob(os.path.join(dir, "**/*.py"), recursive=True), as relative paths
Glob(dir) == {p \in PyPaths : dir[p].exists}

\* ast.parse(content) raises SyntaxError
Parses(text) == \A i \in DOMAIN text : text[i] # "("

IsCode(c) == c # "#"

\* ast.unparse(ast.parse(content)): the canonical text, comments dropped
Unparse(text) == SelectSeq(text, IsCode)

\* SequenceMatcher.find_longest_match: the blocks <<i, j, k>> with
\* a[i..i+k-1] = b[j..j+k-1]
MatchingBlocks(a, b) ==
    {blk \in (1..Len(a)) \X (1..Len(b)) \X (1..Len(a)) :
        /\ blk[1] + blk[3] - 1 <= Len(a)
        /\ blk[2] + blk[3] - 1 <= Len(b)
        /\ SubSeq(a, blk[1], blk[1] + blk[3] - 1) = SubSeq(b, blk[2], blk[2] + blk[3] - 1)}

\* the longest block, the earliest in a and then in b among the longest
LongestMatch(a, b) ==
    CHOOSE blk \in MatchingBlocks(a, b) :
        \A other \in MatchingBlocks(a, b) :
            \/ blk[3] > other[3]
            \/ blk[3] = other[3] /\ blk[1] < other[1]
            \/ blk[3] = other[3] /\ blk[1] = other[1] /\ blk[2] <= other[2]

RECURSIVE Matches(_, _)
\* SequenceMatcher.get_matching_blocks: total size of the matching blocks,
\* the longest one and then those to its left and to its right
Matches(a, b) ==
    IF MatchingBlocks(a, b) = {} THEN 0
    ELSE LET blk == LongestMatch(a, b)
         IN Matches(SubSeq(a, 1, blk[1] - 1), SubSeq(b, 1, blk[2] - 1))
            + blk[3]
            + Matches(SubSeq(a, blk[1] + blk[3], Len(a)), SubSeq(b, blk[2] + blk[3], Len(b)))

\* a ratio that counts nothing as matched
RatioNoMatch(a, b) ==
    IF Len(a) + Len(b) = 0 THEN [num |-> 1, den |-> 1]
    ELSE [num |-> 0, den |-> Len(a) + Len(b)]

\* SequenceMatcher(None, str1, str2).ratio(): 2.0 * M / T, 1.0 when T = 0
Ratio(a, b) ==
    IF Len(a) + Len(b) = 0 THEN [num |-> 1, den |-> 1]
    ELSE [num |-> 2 * Matches(a, b), den |-> Len(a) + Len(b)]

\* _compare_files that compares the contents as they are read
CompareFilesRawText(file1, file2) ==
    IF ~file1.exists \/ ~file2.exists THEN NoScore
    ELSE IF ~Parses(file1.text) \/ ~Parses(file2.text) THEN Ratio(file1.text, file2.text)
    ELSE Ratio(Unparse(file1.text), Unparse(file2.text))

\* ASTComparator._compare_files: 0.0 on SyntaxError or any other exception
CompareFiles(file1, file2) ==
    IF ~file1.exists \/ ~file2.exists THEN NoScore
    ELSE IF ~Parses(file1.text) \/ ~Parses(file2.text) THEN NoScore
    ELSE Ratio(Unparse(file1.text), Unparse(file2.text))

\* the common files of a comparison that takes every path of the trees
CommonFilesAnyPath(d1, d2) == {p \in Paths : d1[p].exists /\ d2[p].exists}

\* common_files = set(rel_files1.keys()) & set(rel_files2.keys())
CommonFiles(d1, d2) == Glob(d1) \cap Glob(d2)

RECURSIVE SumValues(_, _)
\* sum(similarities.values()) as a fraction, over the keys given
SumValues(sims, keys) ==
    IF keys = {} THEN NoScore
    ELSE LET k == CHOOSE x \in keys : TRUE
             rest == SumValues(sims, keys \ {k})
         IN [num |-> sims[k].num * rest.den + rest.num * sims[k].den,
             den |-> sims[k].den * rest.den]

\* an aggregate that is the sum of the ratios
AvgScoreNoDivision(sims) ==
    IF DOMAIN sims # {} THEN SumValues(sims, DOMAIN sims) ELSE NoScore

\* sum(similarities.values()) / len(similarities) if similarities else 0.0
AvgScore(sims) ==
    IF DOMAIN sims # {}
    THEN [num |-> SumValues(sims, DOMAIN sims).num,
          den |-> SumValues(sims, DOMAIN sims).den * Cardinality(DOMAIN sims)]
    ELSE NoScore

\* evaluate: patch_file = self._get_generated_patch_file(); without a patch
\* the report is {"error": "No patch found", "status": "failed"}
PsGetPatchFile ==
    /\ simpc = "start"
    /\ \E found \in BOOLEAN :
         IF found
         THEN simpc' = "copy" /\ UNCHANGED <<failure, simReport>>
         ELSE simpc' = "done" /\ failure' = "no_patch" /\ simReport' = "failed"
    /\ UNCHANGED <<notCompareVars, dir1, dir2, mode, common_files, similarities,
                   similarity_score, score_file>>

\* _compare_with_branches: the repository is copied into patched_dir in a
\* branch_context of GitManager, whose git commands never raise; an exception
\* of the copy is caught and 0.0 returned
PsCopyPatched ==
    /\ simpc = "copy"
    /\ \E f \in {"none", "copy_error"} :
         /\ failure' = f
         /\ simpc' = IF f = "copy_error" THEN "save" ELSE "apply"
    /\ similarity_score' = NoScore
    /\ UNCHANGED <<notCompareVars, dir1, dir2, mode, common_files, similarities,
                   score_file, simReport>>

\* if not applier.apply_patch_from_file(patch_file): return 0.0; else the
\* filtered comparison when the mig-diff data is available, the raw one if not
PsApplyPatch ==
    /\ simpc = "apply"
    /\ \E ok \in BOOLEAN, m \in {"raw", "filtered"} :
         IF ok
         THEN /\ mode' = m
              /\ simpc' = "glob"
              /\ failure' = failure
         ELSE /\ mode' = mode
              /\ simpc' = "save"
              /\ failure' = "patch_rejected"
    /\ UNCHANGED <<notCompareVars, dir1, dir2, common_files, similarities,
                   similarity_score, score_file, simReport>>

\* compare_directory_asts: the Python files of both trees and the paths they
\* share; without a common file the empty record is returned
CdGlob ==
    /\ simpc = "glob"
    /\ common_files' = CommonFiles(dir1, dir2)
    /\ similarities' = <<>>
    /\ simpc' = IF common_files' = {} THEN "mean" ELSE "loop"
    /\ UNCHANGED <<notCompareVars, dir1, dir2, mode, failure, similarity_score,
                   score_file, simReport>>

\* for rel_path in common_files: similarities[rel_path] = _compare_files(...)
CdCompareFile ==
    /\ simpc = "loop"
    /\ \E rel_path \in common_files \ DOMAIN similarities :
         /\ similarities' = similarities @@ (rel_path :> CompareFiles(dir1[rel_path], dir2[rel_path]))
         /\ simpc' = IF common_files = DOMAIN similarities' THEN "mean" ELSE "loop"
    /\ UNCHANGED <<notCompareVars, dir1, dir2, mode, failure, common_files,
                   similarity_score, score_file, simReport>>

\* _compare_with_raw_branch: the average of the record's values
PsMeanRaw ==
    /\ simpc = "mean"
    /\ mode = "raw"
    /\ similarity_score' = AvgScore(similarities)
    /\ simpc' = "save"
    /\ UNCHANGED <<notCompareVars, dir1, dir2, mode, failure, common_files,
                   similarities, score_file, simReport>>

\* _compare_with_filtered_branch: the average of the record's values
PsMeanFiltered ==
    /\ simpc = "mean"
    /\ mode = "filtered"
    /\ similarity_score' = AvgScore(similarities)
    /\ simpc' = "save"
    /\ UNCHANGED <<notCompareVars, dir1, dir2, mode, failure, common_files,
                   similarities, score_file, simReport>>

\* self._save_results(similarity_score), which swallows its exceptions;
\* return {"similarity_score": similarity_score, "status": "success"}
PsSaveResults ==
    /\ simpc = "save"
    /\ \E written \in BOOLEAN :
         score_file' = IF written THEN <<similarity_score>> ELSE <<>>
    /\ simReport' = "success"
    /\ simpc' = "done"
    /\ UNCHANGED <<notCompareVars, dir1, dir2, mode, failure, common_files,
                   similarities, similarity_score>>

NextCompare ==
    \/ PsGetPatchFile
    \/ PsCopyPatched
    \/ PsApplyPatch
    \/ CdGlob
    \/ CdCompareFile
    \/ PsMeanRaw
    \/ PsMeanFiltered
    \/ PsSaveResults

SpecCompare == InitCompare /\ [][NextCompare]_vars

-----------------------------------------------------------------------------
(* PatchSimilarityEvaluator on the branches of the repository               *)
(* (src/src/evaluator/evaluators/patch_similarity.py): where the two trees  *)
(* compared come from                                                        *)

\* config.pre_migration_branch, config.post_migration_branch
PreMigration == "pre"
PostMigration == "post"
SimBranches == {PreMigration, PostMigration}

\* the contents of a Python file of the repository
SimFiles == {NoFile, [exists |-> TRUE, text |-> <<"x">>], [exists |-> TRUE, text |-> <<"x", "x">>]}

\* a generated patch rewrites one Python file
SimPatches == {[path |-> p, text |-> t] : p \in PyPaths, t \in {<<"x">>, <<"x", "x">>}}

\* how mig-diff.yaml lists a path: not at all, with no code_changes, with
\* code_changes that declare the whole file changed
Listings == {"none", "copy", "all"}

InitSimilarity ==
    /\ BranchIdle
    /\ PatchIdle
    /\ CollectIdle
    /\ ScoreIdle
    /\ FilterIdle
    /\ checked_out \in SimBranches
    /\ branch_trees \in [SimBranches -> {Tree(a, b, NoFile) : a, b \in SimFiles}]
    /\ gen_patch \in SimPatches
    /\ mig_available \in BOOLEAN
    /\ listed \in [PyPaths -> Listings]
    /\ dir1 = [p \in Paths |-> NoFile]
    /\ dir2 = [p \in Paths |-> NoFile]
    /\ simpc = "copy"
    /\ mode = "none"
    /\ failure = "none"
    /\ common_files = {}
    /\ similarities = <<>>
    /\ similarity_score = NoScore
    /\ score_file = <<>>
    /\ simReport = "none"

\* with self.git_manager.branch_context(b): the body runs on b and the
\* branch checked out before is checked out again afterwards
InContext(h, b) == b

\* git apply of the patch succeeds: the file it rewrites is there
ApplyOk(p, tree) == tree[p.path].exists

\* the tree after git apply
ApplyTo(p, tree) == [tree EXCEPT ![p.path] = [exists |-> TRUE, text |-> p.text]]

\* shutil.copytree(self.config.repo_path, filtered_repo_path), before the
\* branch_context of the post-migration branch is entered: the tree of the
\* branch checked out, h
CopiedForFilter(h) == branch_trees[h]

\* the loop over mig_diff_data["files"] inside branch_context(post): a listed
\* file that is in the post-migration branch and in patched_dir is written
\* into filtered_repo, from patched_dir when it has no code_changes, filtered
\* (here: the whole post-migration file) when it has; every other file stays
\* as it was copied
FilteredRepo(copied, patched) ==
    [p \in Paths |->
        IF p \notin PyPaths \/ listed[p] = "none" THEN copied[p]
        ELSE IF ~branch_trees[InContext(checked_out, PostMigration)][p].exists
                  \/ ~patched[p].exists
        THEN copied[p]
        ELSE IF listed[p] = "copy" THEN patched[p]
        ELSE branch_trees[InContext(checked_out, PostMigration)][p]]

\* compare_directory_asts(d1, d2) and the average of its values
ScoreOf(d1, d2) ==
    AvgScore([p \in CommonFiles(d1, d2) |-> CompareFiles(d1[p], d2[p])])

\* the score evaluate() returns when it is called with branch h checked out
ScoreCalledOn(h) ==
    LET pre == branch_trees[InContext(h, PreMigration)]
        patched == ApplyTo(gen_patch, pre)
    IN IF ~ApplyOk(gen_patch, pre) THEN NoScore
       ELSE IF ~mig_available THEN ScoreOf(patched, branch_trees[InContext(h, PostMigration)])
       ELSE ScoreOf(patched, FilteredRepo(CopiedForFilter(h), patched))

\* _compare_with_branches: with branch_context(pre_migration_branch):
\* shutil.copytree(repo_path, patched_dir)
BrCopyPatched ==
    /\ simpc = "copy"
    /\ dir1' = branch_trees[InContext(checked_out, PreMigration)]
    /\ simpc' = "apply"
    /\ UNCHANGED <<notCompareVars, dir2, mode, failure, common_files, similarities,
                   similarity_score, score_file, simReport>>

\* if not applier.apply_patch_from_file(patch_file): return 0.0; the filtered
\* comparison when mig_filter.is_available(), the raw one (the repository on
\* the post-migration branch) if not
BrApplyPatch ==
    /\ simpc = "apply"
    /\ IF ~ApplyOk(gen_patch, dir1)
       THEN /\ failure' = "patch_rejected"
            /\ simpc' = "save"
            /\ UNCHANGED <<dir1, dir2, mode>>
       ELSE /\ dir1' = ApplyTo(gen_patch, dir1)
            /\ failure' = failure
            /\ IF mig_available
               THEN simpc' = "filter" /\ mode' = "filtered" /\ dir2' = dir2
               ELSE /\ simpc' = "glob"
                    /\ mode' = "raw"
                    /\ dir2' = branch_trees[InContext(checked_out, PostMigration)]
    /\ UNCHANGED <<notCompareVars, common_files, similarities, similarity_score,
                   score_file, simReport>>

\* _compare_with_filtered_branch: shutil.copytree(repo_path, filtered_repo_path),
\* then the loop over the listed files inside branch_context(post_migration_branch)
BrFilterRepo ==
    /\ simpc = "filter"
    /\ dir2' = FilteredRepo(CopiedForFilter(checked_out), dir1)
    /\ simpc' = "glob"
    /\ UNCHANGED <<notCompareVars, dir1, mode, failure, common_files, similarities,
                   similarity_score, score_file, simReport>>

NextSimilarity ==
    \/ BrCopyPatched
    \/ BrApplyPatch
    \/ BrFilterRepo
    \/ CdGlob
    \/ CdCompareFile
    \/ PsMeanRaw
    \/ PsMeanFiltered
    \/ PsSaveResults

SpecSimilarity == InitSimilarity /\ [][NextSimilarity]_vars

-----------------------------------------------------------------------------
(* Properties of the branch controllers (SpecBranch) *)

\* C1: a branch that is checked out when branch_context(X) is entered
\* (GitManager or UTPRGitManager, on its own or inside evaluate) is the
\* checked-out branch again when the context has been left, by return or by
\* exception.
C1_OriginalBranchRestored ==
    (pc = "ctx_out" /\ entryHead \in Names) => head = entryHead

\* C1 witness: the guarded block ran on another branch X, raised, and the
\* context has been left with the original branch checked out.
C1_Witness ==
    /\ pc = "ctx_out"
    /\ entryHead \in Names
    /\ ctxBranch # entryHead
    /\ ctxEntered
    /\ bodyHead = ctxBranch
    /\ exc
    /\ head = entryHead

\* C2: after evaluate() has returned, on every path, the generated-patch
\* branch does not exist (stated for a repository that had no such branch when
\* evaluate() was called).
C2_GenBranchDeletedAfterEvaluate ==
    (pc = "done" /\ caller = "eval" /\ GenPatch \notin startBranches)
        => GenPatch \notin branches

\* C3: a checkout of a branch that does not exist fails with an error in every
\* branch controller, so the block guarded by branch_context(X) only ever runs
\* with X checked out.
C3_GuardedBlockRunsOnRequestedBranch ==
    ctxEntered => bodyHead = ctxBranch

\* no hunk of the patch applies under any strategy
NoHunkApplies(p) == HunksOfKind(p, {"ok", "merge"}) = {}

\* C4: in every git manager implementation, create_branch_from_patch that
\* succeeds leaves the new branch with a tip commit holding the base plus the
\* patch, and with a patch no strategy applies it fails with an error instead
\* of returning.
C4_CreateCommitsOrFails ==
    pc = "cb_out" =>
        /\ cbReturn = "True" =>
              /\ new_branch_name \in branches
              /\ tip[new_branch_name] = Patched(baseTip)
        /\ NoHunkApplies(patch_content) => cbReturn = "raised"

\* C9: deleting the generated-patch branch (_delete_gen_patch_branch, on its
\* own or as evaluate's cleanup) never raises; deleting an absent branch
\* leaves the set of branches unchanged; and deleting again after a deletion
\* changes nothing.
C9_DeleteGenIdempotent ==
    (pc = "done" /\ caller \in {"delete", "eval"}) =>
        /\ ~exc
        /\ BranchesAfterDelete(mgr, GenPatch) = branches
        /\ (caller = "delete" /\ GenPatch \notin startBranches) => branches = startBranches
        /\ caller = "delete" => branches \in {startBranches, startBranches \ {GenPatch}}

\* C9 witness: the second deletion in a row, of the then absent branch, has
\* completed.
C9_Witness ==
    /\ pc = "done"
    /\ caller = "delete"
    /\ nops = 2
    /\ GenPatch \notin startBranches
    /\ containerUp
    /\ ~exc

-----------------------------------------------------------------------------
(* Properties of PatchApplier.apply_patch_from_file (SpecPatch) *)

\* the call has returned after running git at least once
\* the call ended in its except clause after subprocess.run raised: the one
\* exit that leaves the process in working_dir
RunRaised == ppc = "done" /\ cwd = "working_dir"

Returned == ppc = "done" /\ attempts # <<>> /\ ~RunRaised

\* at least one hunk applies and at least one applies under no strategy
PartlyApplicable(p) == HunksOfKind(p, {"ok"}) # {} /\ HunksOfKind(p, {"bad"}) # {}

\* C5: a patch of which at least one hunk applies and at least one does not
\* is reported as success by apply_patch_from_file.
C5_PartialPatchIsSuccess ==
    (Returned /\ variant = "evaluator" /\ PartlyApplicable(patch)) => result = "True"

\* C6: apply_patch_from_file returns true if and only if at least one hunk of
\* the patch was applied to the target tree.
C6_TrueIffSomeHunkApplied ==
    (ppc = "done" /\ ~RunRaised /\ variant = "evaluator") => (result = "True" <=> applied # {})

\* the ladder of the specification
Ladder == <<"strict", "3way", "reject">>

C8_ThreeWayFallbackSucceeds ==
    (Returned /\ variant = "evaluator"
        /\ GitApplyStrict(patch).rc # 0 /\ GitApply3way(patch).rc = 0)
        => result = "True"

-----------------------------------------------------------------------------
(* Properties of CollectResultsPlugin (SpecCollect) *)

RECURSIVE MaxPrecedence(_)
\* the highest precedence among a set of <<when, status>> entries
MaxPrecedence(S) ==
    IF S = {} THEN 0
    ELSE LET x == CHOOSE y \in S : TRUE
             rest == MaxPrecedence(S \ {x})
         IN IF Precedence(x[2]) > rest THEN Precedence(x[2]) ELSE rest

WhenSeen(n, when) == {x \in seen[n] : x[1] = when}

\* the reports of a test are all in: one setup report, one teardown report, and
\* a call report exactly when the setup passed
AllPhasesReported(n) ==
    /\ Cardinality(WhenSeen(n, "setup")) = 1
    /\ Cardinality(WhenSeen(n, "teardown")) = 1
    /\ Cardinality(WhenSeen(n, "call")) <= 1
    /\ WhenSeen(n, "call") # {} <=> WhenSeen(n, "setup") = {<<"setup", "passed">>}

\* C10: the recorded final status of a test has the highest precedence among
\* the statuses reported in its setup, call and teardown phases.
C10_FinalStatusIsMaxPrecedence ==
    \A n \in NodeIds :
        AllPhasesReported(n) =>
            Precedence(results[n].outcome) = MaxPrecedence(seen[n])

\* a failed setup-phase or teardown-phase report of test n has been processed
PhaseFailureSeen(n) == <<"setup", "error">> \in seen[n] \/ <<"teardown", "error">> \in seen[n]

\* C11: if any setup-phase or teardown-phase report of a test is a failure,
\* the test's recorded status is error, whatever the call phase reported and
\* in whatever order the reports arrived.
C11_PhaseFailureIsError ==
    \A n \in NodeIds : PhaseFailureSeen(n) => results[n].outcome = "error"

\* C11 witness: a teardown failure was reported before a failing call report
\* of the same test, and the status is error.
C11_Witness ==
    \E n \in NodeIds :
        /\ <<"teardown", "error">> \in seen[n]
        /\ <<"call", "failed">> \in seen[n]
        /\ results[n].when = "call"
        /\ results[n].outcome = "error"

\* the statuses a TestOutcome may have
Statuses == {"passed", "failed", "skipped", "xfailed", "xpassed", "error"}

\* C12: after all phase reports of a test have been processed, its recorded
\* status is one of passed, failed, skipped, xfailed, xpassed, error, never
\* empty.
C12_StatusNeverEmpty ==
    \A n \in NodeIds : AllPhasesReported(n) => results[n].outcome \in Statuses

\* C13: for every sequence of phase reports, the collector in the Docker
\* runner script (its results read back through the JSON file) and the
\* host-side CollectResultsPlugin yield the same per-test records.
C13_DockerAndHostRecordsAgree == DockerRunPytest = LocalRunPytest

\* C13 witness: a test whose call report failed and was then reported again
\* as an unexpected pass (equal precedence) has the same record on both sides.
C13_Witness ==
    /\ <<"call", "failed">> \in seen["t1"]
    /\ results["t1"].outcome = "xpassed"
    /\ results["t2"].present
    /\ DockerRunPytest = LocalRunPytest

-----------------------------------------------------------------------------
(* Properties of the scoring (SpecScore) *)

\* the identifiers with status passed in a run
PassedIn(run) ==
    {n \in NodeIds : \E i \in DOMAIN run : run[i] = [nodeid |-> n, outcome |-> "passed"]}

\* the identifier uniquely keys a test within the run
UniqueIds(run) == \A i, j \in DOMAIN run : run[i].nodeid = run[j].nodeid => i = j

\* the score (a fraction) equals n / d
ScoreIs(score, n, d) == score.num * d = n * score.den

\* what scoring a run against a baseline set is specified to give
SpecifiedScore(B, run, score, count) ==
    /\ count = Cardinality(B \cap PassedIn(run))
    /\ IF B = {} THEN ScoreIs(score, 0, 1) ELSE ScoreIs(score, count, Cardinality(B))

\* C14: the baseline set used for scoring is exactly the set of identifiers
\* with status passed in the pre-migration run; an identifier whose status is
\* skipped or failed (any status but passed) is not in it; and the ground-truth
\* score and the generated score are both computed against that one set.
C14_BaselineIsPassedPreMig ==
    /\ spc \in {"gt", "gen", "return", "done"} =>
          /\ baseline_passing_tests = PassedIn(pre_mig_result)
          /\ baseline_count = Cardinality(PassedIn(pre_mig_result))
          /\ \A i \in DOMAIN pre_mig_result :
                (pre_mig_result[i].outcome # "passed"
                    /\ pre_mig_result[i].nodeid \in baseline_passing_tests)
                => \E j \in DOMAIN pre_mig_result :
                      /\ j # i
                      /\ pre_mig_result[j].nodeid = pre_mig_result[i].nodeid
                      /\ pre_mig_result[j].outcome = "passed"
    /\ spc = "done" =>
          /\ gt_patch_score = ComputeScore(PassedIn(pre_mig_result), gt_patch_result).score
          /\ gen_patch_score = ComputeScore(PassedIn(pre_mig_result), gen_patch_result).score
          /\ gt_maintained_count =
                ComputeScore(PassedIn(pre_mig_result), gt_patch_result).maintained_count
          /\ gen_maintained_count =
                ComputeScore(PassedIn(pre_mig_result), gen_patch_result).maintained_count

\* C14 witness: a pre-migration run with a passed and a skipped test has been
\* scored against two non-empty runs.
C14_Witness ==
    /\ spc = "done"
    /\ pre_mig_result = <<[nodeid |-> "t1", outcome |-> "skipped"],
                          [nodeid |-> "t2", outcome |-> "passed"]>>
    /\ baseline_passing_tests = {"t2"}
    /\ gt_patch_result # <<>>
    /\ gen_patch_result # <<>>

\* C15: for each compared run, maintainedCount is the number of identifiers
\* that are in the baseline set and passed in that run, and the score is
\* maintainedCount divided by the size of the baseline set; with an empty
\* baseline set the score is 0.0 and maintainedCount 0 whatever the run holds.
C15_ScoreIsMaintainedOverBaseline ==
    spc = "done" =>
        /\ UniqueIds(gt_patch_result) =>
              SpecifiedScore(PassedIn(pre_mig_result), gt_patch_result,
                             gt_patch_score, gt_maintained_count)
        /\ UniqueIds(gen_patch_result) =>
              SpecifiedScore(PassedIn(pre_mig_result), gen_patch_result,
                             gen_patch_score, gen_maintained_count)
        /\ PassedIn(pre_mig_result) = {} =>
              /\ gt_patch_score = NoScore /\ gt_maintained_count = 0
              /\ gen_patch_score = NoScore /\ gen_maintained_count = 0

\* C15 witness: of two baseline tests the generated run kept one.
C15_Witness ==
    /\ spc = "done"
    /\ baseline_count = 2
    /\ UniqueIds(gen_patch_result)
    /\ Len(gen_patch_result) = 2
    /\ gen_maintained_count = 1
    /\ ScoreIs(gen_patch_score, 1, 2)

\* C16: for every pre-migration result and every compared result that
\* UnitTestResult can hold, the score lies in [0,1] and
\* 0 <= maintainedCount <= |BaselineSet|.
C16_ScoreInUnitInterval ==
    spc = "done" =>
        /\ 0 <= gt_patch_score.num /\ gt_patch_score.num <= gt_patch_score.den
        /\ 0 <= gen_patch_score.num /\ gen_patch_score.num <= gen_patch_score.den
        /\ 0 <= gt_maintained_count /\ gt_maintained_count <= baseline_count
        /\ 0 <= gen_maintained_count /\ gen_maintained_count <= baseline_count

\* C17 as stated: scoring any run against itself as the baseline yields
\* score 1.0 and maintainedCount = |BaselineSet|.
C17_SelfScoreIsOne ==
    (spc = "done" /\ gt_patch_result = pre_mig_result) =>
        /\ ScoreIs(gt_patch_score, 1, 1)
        /\ gt_maintained_count = baseline_count

\* C17 amended: scoring a run (its identifiers unique) against itself as the
\* baseline yields maintainedCount = |BaselineSet|, and score 1.0 when at
\* least one of its tests passed; when none passed the baseline set is empty
\* and the score is 0.0.
C17_SelfScoreIsOneUnlessEmpty ==
    /\ (spc = "done" /\ gt_patch_result = pre_mig_result /\ UniqueIds(pre_mig_result)) =>
          /\ gt_maintained_count = baseline_count
          /\ IF PassedIn(pre_mig_result) = {}
             THEN gt_patch_score = NoScore
             ELSE ScoreIs(gt_patch_score, 1, 1)
    /\ (spc = "done" /\ gen_patch_result = pre_mig_result /\ UniqueIds(pre_mig_result)) =>
          /\ gen_maintained_count = baseline_count
          /\ IF PassedIn(pre_mig_result) = {}
             THEN gen_patch_score = NoScore
             ELSE ScoreIs(gen_patch_score, 1, 1)

\* C17 witness: a run with a passed and a failed test was scored against
\* itself.
C17_Witness ==
    /\ spc = "done"
    /\ gt_patch_result = pre_mig_result
    /\ Len(pre_mig_result) = 2
    /\ UniqueIds(pre_mig_result)
    /\ baseline_count = 1
    /\ ScoreIs(gt_patch_score, 1, 1)

\* the run without its passing tests that are outside the baseline set B
WithoutExtraPasses(run, B) ==
    SelectSeq(run, LAMBDA r : ~(r.outcome = "passed" /\ r.nodeid \notin B))

\* no test of the baseline set B passed in the run
NoBaselinePass(run, B) ==
    \A i \in DOMAIN run : run[i].nodeid \in B => run[i].outcome # "passed"

\* C18: tests outside the baseline set never affect a run's score or
\* maintainedCount: two runs that differ only by passing tests outside the
\* baseline have the same score and maintainedCount, and a run in which no
\* baseline test passes scores 0 whatever else it passes.
C18_TestsOutsideBaselineIgnored ==
    spc = "done" =>
        /\ WithoutExtraPasses(gen_patch_result, PassedIn(pre_mig_result))
              = WithoutExtraPasses(gt_patch_result, PassedIn(pre_mig_result))
           => /\ gen_patch_score = gt_patch_score
              /\ gen_maintained_count = gt_maintained_count
        /\ NoBaselinePass(gen_patch_result, PassedIn(pre_mig_result))
           => /\ ScoreIs(gen_patch_score, 0, 1)
              /\ gen_maintained_count = 0
        /\ NoBaselinePass(gt_patch_result, PassedIn(pre_mig_result))
           => /\ ScoreIs(gt_patch_score, 0, 1)
              /\ gt_maintained_count = 0

\* C18 witness: the generated run is the ground-truth run plus a passing test
\* outside the baseline, and both kept the one baseline test.
C18_Witness ==
    /\ spc = "done"
    /\ baseline_passing_tests = {"t1"}
    /\ gt_patch_result = <<[nodeid |-> "t1", outcome |-> "passed"]>>
    /\ gen_patch_result = <<[nodeid |-> "t1", outcome |-> "passed"],
                            [nodeid |-> "t2", outcome |-> "passed"]>>
    /\ gen_maintained_count = 1
    /\ gen_patch_score = gt_patch_score

-----------------------------------------------------------------------------
(* Properties of the diff filter (SpecFilter) *)

\* the ranges declared by the code changes, in the order declared
Declared == CodeChangeRanges(code_changes)

\* the declared ranges are sorted and non-overlapping (each old range ends
\* before the next starts) and lie within both files
SortedDisjointInBounds(changes) ==
    /\ \A i \in DOMAIN changes :
          /\ 1 <= changes[i][1][1] /\ changes[i][1][1] <= changes[i][1][2]
          /\ changes[i][1][2] <= Len(old_file)
          /\ 1 <= changes[i][2][1] /\ changes[i][2][1] <= changes[i][2][2]
          /\ changes[i][2][2] <= Len(new_file)
    /\ \A i, j \in DOMAIN changes : i < j => changes[i][1][2] < changes[j][1][1]

\* what old line k contributes to the output: itself when it lies outside
\* every declared old range, the new range when it starts a declared old
\* range, nothing when it lies further inside one
Contribution(k, changes) ==
    IF \A i \in DOMAIN changes : k < changes[i][1][1] \/ k > changes[i][1][2]
    THEN <<old_file[k]>>
    ELSE IF \E i \in DOMAIN changes : k = changes[i][1][1]
    THEN LET i == CHOOSE c \in DOMAIN changes : k = changes[c][1][1]
         IN [x \in 1..(changes[i][2][2] - changes[i][2][1] + 1) |->
                new_file[changes[i][2][1] + x - 1]]
    ELSE <<>>

RECURSIVE Spliced(_, _)
\* the contributions of old lines 1..k, in order
Spliced(k, changes) ==
    IF k = 0 THEN <<>> ELSE Spliced(k - 1, changes) \o Contribution(k, changes)

\* C19: when the declared ranges are sorted, non-overlapping and within the
\* bounds of both files, the output is, in order, every old line outside all
\* declared old ranges, with each declared old range replaced at its position
\* by the new file's lines of its new range (start through end inclusive).
C19_OutputIsSplice ==
    (fpc = "done" /\ SortedDisjointInBounds(Declared)) =>
        output = Spliced(Len(old_file), Declared)

\* C19 witness: a four-line file with one declared range in the middle,
\* replaced by three new lines, has been filtered.
C19_Witness ==
    /\ fpc = "done"
    /\ Len(old_file) = 4
    /\ Declared = <<<<<<2, 3>>, <<1, 3>>>>>>
    /\ output = <<"o1", "n1", "n2", "n3", "o4">>

\* the example's files with the single change line "2:2-3" have been filtered
ExampleDone ==
    /\ fpc = "done"
    /\ old_file = ExampleOld
    /\ new_file = ExampleNew
    /\ code_changes = <<<<"2", ":", "2", "-", "3">>>>

\* C20 as stated: the diff filter on old = a b c d e, new = a B2 B3 d e with
\* the single change line "2:2-3" produces a B2 B3 d e.
C20_ExampleOutput == ExampleDone => output = <<"a", "B2", "B3", "d", "e">>

\* C20 amended: with the change line "2:2-3" the filter produces
\* a B2 B3 c d e (old line 2 is replaced by new lines 2-3, old line 3 is
\* kept); a B2 B3 d e is the output for the change line "2-3:2-3".
C20_ExampleOutputKeepsLine3 ==
    /\ ExampleDone => output = <<"a", "B2", "B3", "c", "d", "e">>
    /\ (fpc = "done" /\ old_file = ExampleOld /\ new_file = ExampleNew
          /\ code_changes = <<<<"2", "-", "3", ":", "2", "-", "3">>>>)
       => output = <<"a", "B2", "B3", "d", "e">>

\* C20 witness: the example has been filtered and its output has six lines.
C20_Witness == ExampleDone /\ all_changes = <<<<<<2, 2>>, <<2, 3>>>>>> /\ Len(output) = 6

-----------------------------------------------------------------------------
\* every entry of code_changes has no "line" value or one that does not parse
NoRangeDeclared ==
    \A i \in DOMAIN code_changes :
        code_changes[i] = <<>> \/ ~ParseLineSpec(code_changes[i]).ok

\* C21: when no ranges are declared (code_changes is empty, or every entry
\* is skipped as unparsable), the diff filter's output is identical to the
\* old file.
C21_NoRangesOutputIsOldFile ==
    (fpc = "done" /\ NoRangeDeclared) => output = old_file

\* C21 witness: a non-empty old file has been filtered with two entries, one
\* unparsable and one without a "line" value, and the output is the old file.
C21_Witness ==
    /\ fpc = "done"
    /\ Len(code_changes) = 2
    /\ \E i \in DOMAIN code_changes : code_changes[i] = <<>>
    /\ \E i \in DOMAIN code_changes : code_changes[i] = <<"x">>
    /\ Len(old_file) >= 2
    /\ output = old_file

-----------------------------------------------------------------------------
(* Properties of the similarity scorer (SpecCompare) *)

\* compare_directory_asts has returned its record
Compared == simpc = "mean"

\* a ratio of 1.0, of 0.0, and equality of two fractions
IsOne(r) == r.den > 0 /\ r.num = r.den
IsZero(r) == r.den > 0 /\ r.num = 0
FracEq(r, s) == r.den > 0 /\ s.den > 0 /\ r.num * s.den = s.num * r.den

\* C22 as stated: for every tree T compared with an identical copy of
\* itself, every path in the result has ratio 1.0.
C22_SelfRatioIsOne ==
    (Compared /\ dir1 = dir2) =>
        \A p \in DOMAIN similarities : IsOne(similarities[p])

\* C22 amended: for a tree compared with an identical copy of itself, every
\* path in the result whose file parses has ratio 1.0, and every path whose
\* file does not parse has ratio 0.0.
C22_SelfRatioIsOneIfParsed ==
    (Compared /\ dir1 = dir2) =>
        \A p \in DOMAIN similarities :
            IF Parses(dir1[p].text)
            THEN IsOne(similarities[p])
            ELSE IsZero(similarities[p])

\* C22 witness: a tree with a file that parses and one that does not has
\* been compared with its copy: ratios 1.0 and 0.0.
C22_Witness ==
    /\ Compared
    /\ dir1 = dir2
    /\ dir1["a.py"] = [exists |-> TRUE, text |-> <<"x">>]
    /\ dir1["b.py"] = [exists |-> TRUE, text |-> <<"(">>]
    /\ IsOne(similarities["a.py"])
    /\ IsZero(similarities["b.py"])

\* the paths whose file exists in both trees, Python or not
InBoth == {p \in Paths : dir1[p].exists /\ dir2[p].exists}

\* the file at p does not parse on one side at least
FailsToParse(p) == ~Parses(dir1[p].text) \/ ~Parses(dir2[p].text)

\* C23: when a common file fails to parse on either side, that file's
\* ratio is 0.0, no error is raised out of the comparison (every common file
\* has its ratio in the record), and the ratio of every other common file is
\* the ratio of its own two canonical texts, whatever the failing file holds.
C23_ParseFailureIsZero ==
    Compared =>
        /\ DOMAIN similarities = common_files
        /\ \A p \in common_files :
              IF FailsToParse(p)
              THEN IsZero(similarities[p])
              ELSE FracEq(similarities[p],
                          Ratio(Unparse(dir1[p].text), Unparse(dir2[p].text)))

\* C23 witness: a.py fails to parse on one side only and has ratio 0.0,
\* while b.py, which parses on both sides, has ratio 1.0.
C23_Witness ==
    /\ Compared
    /\ ~Parses(dir1["a.py"].text) /\ Parses(dir2["a.py"].text)
    /\ dir2["a.py"].exists
    /\ IsZero(similarities["a.py"])
    /\ "b.py" \in DOMAIN similarities
    /\ dir1["b.py"].text # <<>>
    /\ IsOne(similarities["b.py"])

\* C24 as stated: the keys of the record are exactly the relative paths
\* present in both trees; a path present in only one tree is never a key.
C24_KeysArePathsInBoth ==
    Compared => DOMAIN similarities = InBoth

\* C24 amended: the keys of the record are exactly the relative paths of the
\* Python files (those the glob **/*.py finds) present in both trees; a path
\* present in only one tree, or one that is not a Python file, is never a
\* key, and each ratio is the comparison of the two files at its own path.
C24_KeysArePythonPathsInBoth ==
    Compared =>
        /\ DOMAIN similarities = InBoth \cap PyPaths
        /\ \A p \in DOMAIN similarities :
              similarities[p] = CompareFiles(dir1[p], dir2[p])

\* C24 witness: a.py is in both trees, b.py in the first only and r.md in
\* both; the record has the single key a.py.
C24_Witness ==
    /\ Compared
    /\ dir1["b.py"].exists /\ ~dir2["b.py"].exists
    /\ dir1["r.md"].exists /\ dir2["r.md"].exists
    /\ DOMAIN similarities = {"a.py"}

\* the arithmetic mean of the ratios in the record, for at most two keys
MeanOfRatios ==
    IF DOMAIN similarities = {} THEN [num |-> 0, den |-> 1]
    ELSE IF DOMAIN similarities = PyPaths
    THEN LET ra == similarities["a.py"]
             rb == similarities["b.py"]
         IN [num |-> ra.num * rb.den + rb.num * ra.den, den |-> 2 * ra.den * rb.den]
    ELSE similarities[CHOOSE p \in DOMAIN similarities : TRUE]

\* C25: the aggregate similarity score is the arithmetic mean of the
\* per-file ratios of the common files, and 0.0 when there are no common
\* files, in both the raw-branch and the filtered-branch comparison.
C25_AggregateIsMean ==
    (simpc = "save" /\ mode \in {"raw", "filtered"}) =>
        /\ DOMAIN similarities = InBoth \cap PyPaths
        /\ FracEq(similarity_score, MeanOfRatios)
        /\ (InBoth \cap PyPaths = {}) => IsZero(similarity_score)

\* C25 witness: the filtered-branch comparison of two common files, one with
\* ratio 1.0 and one with ratio 0.0, has the aggregate 1/2.
C25_Witness ==
    /\ simpc = "save"
    /\ mode = "filtered"
    /\ DOMAIN similarities = PyPaths
    /\ IsOne(similarities["a.py"])
    /\ IsZero(similarities["b.py"])
    /\ FracEq(similarity_score, [num |-> 1, den |-> 2])

-----------------------------------------------------------------------------
(* Properties of the evaluations' reports *)

\* C26: any failure during an evaluation (here PatchSimilarityEvaluator's:
\* no patch, a copy that raises, a patch that cannot be applied) is converted
\* into a report with status failed and is never reported with status
\* success.
C26_FailureIsFailedReport ==
    (simpc = "done" /\ failure # "none") => simReport = "failed"

\* evaluate() of UnitTestPassRateEvaluator has returned a failed report
EvalFailed == pc = "done" /\ caller = "eval" /\ report = "failed"

\* C27: every failed report returned by UnitTestPassRateEvaluator.evaluate()
\* names the step at which the failure occurred: a failure while creating the
\* generated-patch branch, or while evaluating the pre-migration,
\* ground-truth or generated branch, is reported under that step and not
\* under another one.
C27_FailedReportNamesStep ==
    (EvalFailed /\ stage \in {"create", "pre", "gt", "gen"}) => reportStep = stage

\* the cleanup steps of evaluate(): removal of run_pytest's temporary files,
\* removal of the copied tests, deletion of the generated-patch branch
InCleanup == caller = "eval" /\ pc \in {"ev_temp", "ev_cleanup", "ev_finally"}

\* C28: an error during cleanup (generated-branch deletion, temp-file
\* removal, removal of copied tests) never changes the report evaluate()
\* returns: a cleanup step, failing or not, leaves the report, the step it
\* names and the pending exception as they were.
C28_CleanupKeepsReport ==
    [][InCleanup => (report' = report /\ reportStep' = reportStep /\ exc' = exc)]_vars

\* C28 witness: evaluate() has returned a success report although the
\* removal of the temporary files and of the copied tests failed.
C28_Witness ==
    /\ pc = "done"
    /\ caller = "eval"
    /\ report = "success"
    /\ {"temp", "tests"} \subseteq cleanupFailed

\* C29: a local execution environment can be used interchangeably with the
\* Docker one: LocalPytestRunner and LocalUTPRGitManager can be constructed
\* (the construction of a runner or manager class returns an object and does
\* not raise).
C29_LocalClassesConstruct ==
    (pc = "done" /\ caller = "construct") => ~exc

\* C30: evaluate() runs the three branch evaluations in the order
\* pre-migration, ground-truth, generated; each one starts only after the
\* previous one has finished and its branch context has been left, without
\* an exception, and the first one starts only after
\* create_branch_from_patch has returned and the generated-patch branch
\* exists.
C30_BranchEvaluationsInOrder ==
    [][(stage' \in {"pre", "gt", "gen"} /\ stage' # stage) =>
          /\ <<stage, stage'>> \in {<<"create", "pre">>, <<"pre", "gt">>, <<"gt", "gen">>}
          /\ ~exc
          /\ GenPatch \in branches
          /\ pc = IF stage = "create" THEN "cb_out" ELSE "ctx_out"
          /\ stage # "create" => ctxEntered]_vars

\* C30 witness: the tests of the generated branch are running, third in the
\* order, on the generated-patch branch.
C30_Witness ==
    /\ caller = "eval"
    /\ stage = "gen"
    /\ pc = "ev_pytest"
    /\ head = GenPatch

-----------------------------------------------------------------------------
(* Properties of the cleanup of evaluate() and of the container operations *)

\* a per-branch evaluation has left its branch context, a
\* create_branch_from_patch has been left, or the whole operation is over
OperationFinished ==
    \/ caller = "eval" /\ pc \in {"ctx_out", "cb_out", "done"}
    \/ caller = "create" /\ pc \in {"cb_out", "done"}

\* the artefacts whose removal command has failed
NotRemovable ==
    (IF "tests" \in cleanupFailed THEN {"tests"} ELSE {})
    \cup (IF "temp" \in cleanupFailed THEN {"script", "json"} ELSE {})
    \cup (IF "patch" \in cleanupFailed THEN {"patch"} ELSE {})

\* C31 as stated: after each per-branch evaluation and each container
\* operation finishes, normally or by exception, the temporary artefacts it
\* created (copied eval-tests directory, runner script, result JSON, patch
\* file) have been removed from the container.
C31_ArtefactsRemoved == OperationFinished => artefacts = {}

\* C31 amended: after each per-branch evaluation and each container
\* operation finishes, normally or by exception, the removal of its
\* temporary artefacts has been run: an artefact is still in the container
\* only if the command removing it failed, which the code does not look at.
C31_ArtefactsRemovedUnlessRmFailed == OperationFinished => artefacts \subseteq NotRemovable

\* C31 witness: the ground-truth evaluation has ended by an exception, after
\* a successful pre-migration evaluation, every removal succeeded and no
\* artefact is left.
C31_Witness ==
    /\ caller = "eval"
    /\ pc = "ctx_out"
    /\ stage = "gt"
    /\ exc
    /\ ctxEntered
    /\ cleanupFailed = {}
    /\ artefacts = {}

-----------------------------------------------------------------------------
(* Further properties of the diff filter (SpecFilter) *)

\* the lists that hold the same pairs as changes in another order
Permuted(changes) ==
    {[i \in DOMAIN changes |-> changes[p[i]]] :
        p \in {q \in [DOMAIN changes -> DOMAIN changes] :
                  \A i, j \in DOMAIN changes : i # j => q[i] # q[j]}}

\* no old line lies in two of the old ranges (a range whose end is before
\* its start holds no line)
NoSharedLine(changes) ==
    \A i, j \in DOMAIN changes :
        i # j => (changes[i][1][2] < changes[j][1][1] \/ changes[j][1][2] < changes[i][1][1])

\* every old range has its start at or before its end
StartBeforeEnd(changes) ==
    \A i \in DOMAIN changes : changes[i][1][1] <= changes[i][1][2]

\* C32 as stated: the diff filter's output does not depend on the order in
\* which the (oldRange, newRange) pairs are listed: for non-overlapping
\* ranges, every permutation of the same list of pairs yields the same
\* output.
C32_OutputSameForPermutations ==
    (fpc = "done" /\ NoSharedLine(Declared)) =>
        \A perm \in Permuted(Declared) : CleverWay(perm) = output

\* C32 amended: for non-overlapping ranges that each have start <= end (so
\* that no two start at the same old line), every permutation of the same
\* list of pairs yields the same output.
C32_OutputSameForPermutationsOfProperRanges ==
    (fpc = "done" /\ NoSharedLine(Declared) /\ StartBeforeEnd(Declared)) =>
        \A perm \in Permuted(Declared) : CleverWay(perm) = output

\* C32 witness: two ranges listed in descending order of their old start
\* have been applied; the output is the one of the ascending list.
C32_Witness ==
    /\ fpc = "done"
    /\ Len(Declared) = 2
    /\ NoSharedLine(Declared) /\ StartBeforeEnd(Declared)
    /\ Declared[1][1][1] > Declared[2][1][1]
    /\ Declared[1][1][2] <= Len(old_file)
    /\ output = CleverWay(<<Declared[2], Declared[1]>>)
    /\ output # old_file

\* what the loop of the splicer still has to do: the changes not yet applied,
\* each weighing more than a pass over the old file, and the old lines from
\* old_lineno to the end
LoopVariant ==
    (Len(all_changes) - cur_change_idx) * (Len(old_file) + 1)
        + (IF old_lineno > Len(old_file) THEN 0 ELSE Len(old_file) + 1 - old_lineno)

\* C37: clever_way_to_replace_old_range_with_new_range terminates for every
\* finite old file, new file and list of ranges, overlapping, unsorted,
\* reversed (end < start) and out-of-bounds ranges included: every iteration
\* of its loop decreases a natural number, and a call of it returns.
C37_SplicerTerminates ==
    /\ [][(fpc = "loop" /\ fpc' = "loop") => LoopVariant' < LoopVariant]_vars
    /\ [](LoopVariant >= 0)
    /\ (fpc = "call") ~> (fpc = "write")

\* C37 witness: the splicer has returned after a reversed range sent
\* old_lineno back to a line it had already passed.
C37_Witness ==
    /\ fpc = "done"
    /\ Len(Declared) = 1
    /\ Declared[1][1][2] + 1 < Declared[1][1][1]
    /\ cur_change_idx = 1
    /\ Len(output) > Len(old_file)

RECURSIVE LinesAt(_, _, _)
\* the lines of file at the positions pos among 1..k, in order
LinesAt(file, k, pos) ==
    IF k = 0 THEN <<>>
    ELSE LinesAt(file, k - 1, pos) \o (IF k \in pos THEN <<file[k]>> ELSE <<>>)

\* the line numbers of file outside every declared range of one side
\* (1: the old ranges, 2: the new ranges)
OutsideRanges(file, side, changes) ==
    {k \in DOMAIN file :
        \A i \in DOMAIN changes : k < changes[i][side][1] \/ k > changes[i][side][2]}

\* the old and the new file are identical outside the declared ranges, the
\* new ranges are sorted and non-overlapping as the old ones are, and each
\* old range stands where its new range stands: as many undeclared lines
\* before the one as before the other
IdenticalOutside(changes) ==
    /\ SortedDisjointInBounds(changes)
    /\ \A i, j \in DOMAIN changes : i < j => changes[i][2][2] < changes[j][2][1]
    /\ LinesAt(old_file, Len(old_file), OutsideRanges(old_file, 1, changes))
          = LinesAt(new_file, Len(new_file), OutsideRanges(new_file, 2, changes))
    /\ \A i \in DOMAIN changes :
          Cardinality({k \in OutsideRanges(old_file, 1, changes) : k < changes[i][1][1]})
            = Cardinality({k \in OutsideRanges(new_file, 2, changes) : k < changes[i][2][1]})

\* C38: if the old and new files are identical outside the declared ranges
\* (the ranges are sorted, non-overlapping, within bounds, and each old range
\* corresponds to its new range), the diff filter's output equals the new
\* file.
C38_OutputIsNewFile ==
    (fpc = "done" /\ IdenticalOutside(Declared)) => output = new_file

\* C38 witness: the migration of lines 2 and 4, declared by two line specs,
\* has been filtered with the two files identical outside the ranges.
C38_Witness ==
    /\ fpc = "done"
    /\ old_file = MigratedOld
    /\ new_file = MigratedNew
    /\ Len(Declared) = 2
    /\ IdenticalOutside(Declared)
    /\ output = new_file

-----------------------------------------------------------------------------
(* Further properties of UnitTestPassRateEvaluator.evaluate (SpecBranch) *)

\* C33: after UnitTestPassRateEvaluator.evaluate() returns, on every path
\* including failure during patch-branch creation, the checked-out branch of
\* the shared working tree is the branch that was checked out when
\* evaluate() was called.
C33_EvaluateRestoresHead ==
    (caller = "eval" /\ pc = "done" /\ startHead \in startBranches /\ GenPatch \notin startBranches)
        => head = startHead

\* C34: evaluate() deletes the generated-patch branch only if this call
\* created it: when evaluate() fails before or without creating the branch
\* (eval tests path missing, patch file missing, a branch of that name
\* already present), a pre-existing branch with the generated-patch name
\* still exists afterwards.
C34_PreexistingGenBranchKept ==
    (caller = "eval" /\ pc = "done" /\ GenPatch \in startBranches) => GenPatch \in branches

-----------------------------------------------------------------------------
(* Further property of PatchApplier.apply_patch_from_file (SpecPatch) *)

\* C36: every operation that changes the process working directory
\* (GitManager._run_git, PatchApplier.apply_patch_from_file) has restored the
\* original working directory when it returns, on every exit path, including
\* the paths where the external command or the directory change itself
\* raises.
C36_CwdRestored ==
    ppc = "done" => cwd = "original"

\* C39: if the pre-migration branch evaluation fails, neither the
\* ground-truth nor the generated branch is evaluated, and if the
\* ground-truth evaluation fails the generated branch is not evaluated; in
\* both cases generated-branch cleanup still runs before evaluate() returns:
\* from a branch evaluation left by an exception the next step is the failed
\* report with no further branch begun, and the step after it is the
\* deletion of the generated-patch branch, with which evaluate() returns.
C39_FailureSkipsLaterBranches ==
    [][/\ (caller = "eval" /\ pc = "ctx_out" /\ exc /\ stage \in {"pre", "gt"}) =>
             (stage' = stage /\ report' = "failed" /\ pc' = "ev_finally")
       /\ (caller = "eval" /\ pc = "ev_finally") =>
             (stage' = stage /\ report' = report /\ pc' = "done"
                /\ branches' = BranchesAfterDelete(mgr, GenPatch))]_vars

\* C39 witness: evaluate() has returned the failed report of the
\* pre-migration branch, no later branch was begun, and the generated-patch
\* branch it had created is deleted.
C39_Witness ==
    /\ caller = "eval"
    /\ pc = "done"
    /\ report = "failed"
    /\ reportStep = "pre"
    /\ stage = "pre"
    /\ ctxEntered
    /\ GenPatch \notin startBranches
    /\ GenPatch \notin branches


-----------------------------------------------------------------------------
(* Further property of UnitTestPassRateEvalResult (SpecScore) *)

\* get_baseline_passing_tests()
GetBaselinePassingTests(o) == GetPassingTestNodeids(o.pre_mig_result)

\* the stored fields of o agree with compute_gt_patch_pass_rate(),
\* compute_gen_patch_pass_rate() and get_baseline_passing_tests() on o
StoredAgrees(o) ==
    /\ ComputeScore(GetBaselinePassingTests(o), o.gt_patch_result)
          = [score |-> o.gt_patch_score, maintained_count |-> o.gt_maintained_passing_count]
    /\ ComputeScore(GetBaselinePassingTests(o), o.gen_patch_result)
          = [score |-> o.gen_patch_score, maintained_count |-> o.gen_maintained_passing_count]
    /\ o.baseline_passing_test_count = Cardinality(GetBaselinePassingTests(o))

-----------------------------------------------------------------------------
(* Property of PatchSimilarityEvaluator on the repository (SpecSimilarity) *)

\* the score returned is the one of a call with the branch checked out
ScoreIsOfThisCall == simpc = "done" => FracEq(similarity_score, ScoreCalledOn(checked_out))

\* C35: PatchSimilarityEvaluator's score is determined by the pre-migration
\* branch, the post-migration branch, the patch and the migration diff spec
\* alone: two evaluations that differ only in which branch is checked out
\* when evaluate() is called return the same similarity score.
C35_ScoreIndependentOfCheckedOut ==
    simpc = "done" =>
        \A h \in SimBranches : FracEq(ScoreCalledOn(h), similarity_score)
====
